---- MODULE Spec2Model ----
(***************************************************************************)
(* Dialogue state and response selection of the appliance-repair agent:    *)
(* the slot extractor and flow engine of ai-processor-worker.js, the FAQ   *)
(* matchers of voice-agent-worker.js, database-worker.js and the SMS       *)
(* worker, and the audio template matcher of voice-agent-worker.js.        *)
(*                                                                         *)
(* JavaScript strings are TLA+ strings; a slot set (a JavaScript object)   *)
(* is a function whose domain is the set of keys the object holds.         *)
(***************************************************************************)
EXTENDS Integers, Sequences, FiniteSets, TLC

VARIABLES
    conversation_data,  \* conversationState.conversation_data read by the turn
    message,            \* the utterance of the last /process turn
    isVoice,            \* channel === 'voice' of the last turn
    extractedInfo,      \* extractInformation(message, conversation_data)
    flowResponse,       \* generateResponse(extractedInfo, isVoice)
    openaiCalled,       \* the turn called openaiClient.processMessage
    finalResponse,      \* the `response` of the turn's JSON body
    httpResponse,       \* what the /process handler returned, or the error that left it
    faqs,               \* the tenant's FAQ catalog (rows of table faqs)
    userInput,          \* the query of the last FAQ match
    faqMatch,           \* the matcher last called and the id of the FAQ it returned, 0 for null
    audioClips,         \* the template keys that have a clip in the tenant's audio store
    aiResponse,         \* the reply text handed to the audio matcher
    audioCache,         \* the keys of the audio cache the handler loaded, in insertion order
    audioMatch,         \* findBestMatch(aiResponse, audioCache): a template key or "null"
    conversation_states, \* the rows of table conversation_states; a row's id is its position
    turns,              \* the /process requests in flight, one per worker invocation
    now,                \* Date.now(), in hours: a request arrives an hour after the one before
    channelTurn,        \* the last turn of the SMS or the voice handler: its input, path and reply
    circuitBreaker,     \* one CircuitBreaker object: name, state, failureCount, nextAttempt
    pending,            \* the execute calls of that breaker suspended at `await fn()`
    executed,           \* what the last step of an execute call did, and the error it threw
    clock,              \* Date.now() as the breaker reads it, in units of ten seconds
    dependency          \* the service behind the breaker: its failed calls in a row, and when the last failed

vars == <<conversation_data, message, isVoice, extractedInfo, flowResponse,
          openaiCalled, finalResponse, httpResponse, faqs, userInput, faqMatch,
          audioClips, aiResponse, audioCache, audioMatch,
          conversation_states, turns, now, channelTurn,
          circuitBreaker, pending, executed, clock, dependency>>

dialogueVars == <<conversation_data, message, isVoice, extractedInfo, flowResponse,
                  openaiCalled, finalResponse, httpResponse>>
faqVars == <<faqs, userInput, faqMatch>>
audioVars == <<audioClips, aiResponse, audioCache, audioMatch>>
storeVars == <<conversation_states, turns, now>>
channelVars == <<channelTurn>>
breakerVars == <<circuitBreaker, pending, executed, clock, dependency>>

(***************************************************************************)
(* String primitives of the JavaScript runtime.                            *)
(***************************************************************************)
UpperChars == "ABCDEFGHIJKLMNOPQRSTUVWXYZ"
LowerChars == "abcdefghijklmnopqrstuvwxyz"
DigitChars == "0123456789"

CharAt(s, i) == IF i >= 1 /\ i <= Len(s) THEN SubSeq(s, i, i) ELSE ""

Letters == {CharAt(UpperChars, i) : i \in 1..Len(UpperChars)}
           \cup {CharAt(LowerChars, i) : i \in 1..Len(LowerChars)}
Digits == {CharAt(DigitChars, i) : i \in 1..Len(DigitChars)}
\* \s of a regular expression, over the characters the model's texts use
WS == {" ", "\t", "\n"}
\* \w of a regular expression
WordChars == Letters \cup Digits \cup {"_"}

LowerChar(c) ==
    IF \E i \in 1..Len(UpperChars) : CharAt(UpperChars, i) = c
    THEN CharAt(LowerChars, CHOOSE i \in 1..Len(UpperChars) : CharAt(UpperChars, i) = c)
    ELSE c

UpperChar(c) ==
    IF \E i \in 1..Len(LowerChars) : CharAt(LowerChars, i) = c
    THEN CharAt(UpperChars, CHOOSE i \in 1..Len(LowerChars) : CharAt(LowerChars, i) = c)
    ELSE c

RECURSIVE toLowerCase(_)
toLowerCase(s) ==
    IF s = "" THEN ""
    ELSE LowerChar(CharAt(s, 1)) \o toLowerCase(SubSeq(s, 2, Len(s)))

\* String.prototype.includes
includes(s, t) ==
    \E i \in 1..(Len(s) - Len(t) + 1) : SubSeq(s, i, i + Len(t) - 1) = t

\* t occurs in s at index i (1-based)
matchAt(s, i, t) ==
    /\ i >= 1
    /\ i + Len(t) - 1 <= Len(s)
    /\ SubSeq(s, i, i + Len(t) - 1) = t

\* the last index of the maximal run of characters of class C that starts at i
\* (i - 1 when s[i] is not in C)
RECURSIVE RunEnd(_, _, _)
RunEnd(s, i, C) ==
    IF i <= Len(s) /\ CharAt(s, i) \in C THEN RunEnd(s, i + 1, C) ELSE i - 1

\* the first index of the maximal run of characters of class C that ends at i
RECURSIVE RunStart(_, _, _)
RunStart(s, i, C) ==
    IF i >= 1 /\ CharAt(s, i) \in C THEN RunStart(s, i - 1, C) ELSE i + 1

\* String.prototype.trim
trim(s) ==
    LET a == RunEnd(s, 1, WS) + 1
        b == RunStart(s, Len(s), WS) - 1
    IN  IF a > b THEN "" ELSE SubSeq(s, a, b)

\* s.replace(/[^\d]/g, '')
RECURSIVE digitsOnly(_)
digitsOnly(s) ==
    IF s = "" THEN ""
    ELSE (IF CharAt(s, 1) \in Digits THEN CharAt(s, 1) ELSE "")
         \o digitsOnly(SubSeq(s, 2, Len(s)))

\* the least element of a non-empty set of integers: the leftmost match position
Leftmost(S) == CHOOSE i \in S : \A j \in S : i <= j
Rightmost(S) == CHOOSE i \in S : \A j \in S : i >= j

\* the result of String.prototype.match: found, and the captured text
NoMatch == [found |-> FALSE, text |-> ""]
Match(t) == [found |-> TRUE, text |-> t]

(***************************************************************************)
(* Slot sets: JavaScript objects.                                          *)
(***************************************************************************)
EmptyObject == [k \in {} |-> ""]

\* the truthiness test `obj[field]` that the code applies to slots
Has(obj, field) ==
    /\ field \in DOMAIN obj
    /\ obj[field] # (IF field = "completionPercentage" THEN 0 ELSE "")

\* obj[field] = value
Set(obj, field, value) ==
    [k \in DOMAIN obj \cup {field} |-> IF k = field THEN value ELSE obj[k]]

\* `${obj[field]}` of a template literal
Interpolate(obj, field) ==
    IF field \in DOMAIN obj THEN obj[field] ELSE "undefined"

(***************************************************************************)
(* Slot Extractor: EnhancedConversationStateManager.extractInformation.    *)
(***************************************************************************)
\* one entry of a category mapping, in insertion order
Category(value, keywords) == [value |-> value, keywords |-> keywords]

appliances == <<
    Category("washer", <<"washer", "washing machine", "laundry">>),
    Category("dryer", <<"dryer", "drying machine">>),
    Category("dishwasher", <<"dishwasher", "dish washer">>),
    Category("refrigerator", <<"refrigerator", "fridge", "freezer">>),
    Category("oven", <<"oven", "stove", "range", "cooktop">>),
    Category("microwave", <<"microwave">>),
    Category("garbage_disposal", <<"garbage disposal", "disposal", "disposer">>),
    Category("air_conditioner", <<"ac", "air conditioner", "air conditioning", "hvac">>) >>

makes == <<
    Category("whirlpool", <<"whirlpool">>),
    Category("ge", <<"ge", "general electric">>),
    Category("samsung", <<"samsung">>),
    Category("lg", <<"lg">>),
    Category("maytag", <<"maytag">>),
    Category("frigidaire", <<"frigidaire">>),
    Category("kenmore", <<"kenmore">>),
    Category("bosch", <<"bosch">>),
    Category("kitchenaid", <<"kitchenaid", "kitchen aid">>),
    Category("electrolux", <<"electrolux">>) >>

issues == <<
    Category("leaking", <<"leaking", "leak", "water coming out", "dripping", "flooding">>),
    Category("not_starting", <<"not starting", "won't start", "not turning on", "dead", "not working">>),
    Category("noisy", <<"noisy", "loud", "making noise", "banging", "grinding", "squeaking">>),
    Category("not_heating", <<"not heating", "cold", "not hot", "no heat">>),
    Category("not_cooling", <<"not cooling", "warm", "not cold", "not freezing">>),
    Category("not_spinning", <<"not spinning", "not turning", "won't spin">>),
    Category("not_draining", <<"not draining", "water sitting", "standing water", "won't drain">>),
    Category("not_cleaning", <<"not cleaning", "dishes dirty", "not washing">>),
    Category("door_issue", <<"door won't close", "door stuck", "door problem">>),
    Category("control_panel", <<"buttons not working", "display not working", "controls broken">>) >>

confirmationPatterns == <<
    Category("yes", <<"yes", "yeah", "yep", "sure", "okay", "ok", "correct", "right", "that's right">>),
    Category("no", <<"no", "nope", "not right", "incorrect", "wrong", "that's wrong">>) >>

locationPatterns == <<
    Category("front", <<"front", "door", "front door">>),
    Category("bottom", <<"bottom", "underneath", "under">>),
    Category("back", <<"back", "behind", "rear">>),
    Category("inside", <<"inside", "interior">>),
    Category("hose", <<"hose", "connection", "pipe">>) >>

\* make.charAt(0).toUpperCase() + make.slice(1)
capitalize(s) == UpperChar(CharAt(s, 1)) \o SubSeq(s, 2, Len(s))

\* the inner loop over one category's keywords: some keyword is a substring
keywordHit(msgLower, keywords) ==
    \E k \in 1..Len(keywords) : includes(msgLower, keywords[k])

\* for one mapping, which of its categories have a keyword in the message
categoryHits(mapping, msgLower) ==
    [n \in 1..Len(mapping) |-> keywordHit(msgLower, mapping[n].keywords)]

\* Variant of categoryLoop: the last category with a keyword in the message
\* sets the slot.
categoryLoopLast(mapping, hits, n, extracted, field) ==
    LET triggered == {k \in n..Len(mapping) : hits[k]}
        last == Rightmost(triggered)
    IN  IF triggered = {} THEN extracted
        ELSE Set(extracted, field,
                 IF field = "applianceMake" THEN capitalize(mapping[last].value)
                 ELSE mapping[last].value)

\* The nested loops `for (category) { for (keyword) { if (includes) { set; break } }
\* if (extracted[field]) break }` from category n on. The outer break tests the
\* slot, which also holds the value carried over from the prior slot set.
RECURSIVE categoryLoop(_, _, _, _, _)
categoryLoop(mapping, hits, n, extracted, field) ==
    IF n > Len(mapping) THEN extracted
    ELSE LET value == IF field = "applianceMake"
                      THEN capitalize(mapping[n].value) ELSE mapping[n].value
             next == IF hits[n] THEN Set(extracted, field, value) ELSE extracted
         IN  IF Has(next, field) THEN next
             ELSE categoryLoop(mapping, hits, n + 1, next, field)

\* ---- customer name --------------------------------------------------------
\* /(?:i'm|my name is|call me|this is)\s+([a-zA-Z]+(?:\s+[a-zA-Z]+)?)/i
nameSignals == <<"i'm", "my name is", "call me", "this is">>

\* the group `\s+([a-zA-Z]+(?:\s+[a-zA-Z]+)?)` tried at index p: the index where
\* the capture ends, 0 when it does not match
nameGroupEnd(msg, p) ==
    LET a == RunEnd(msg, p, WS)
        b == RunEnd(msg, a + 1, Letters)
        c == RunEnd(msg, b + 1, WS)
        d == RunEnd(msg, c + 1, Letters)
    IN  IF a < p \/ b < a + 1 THEN 0
        ELSE IF c >= b + 1 /\ d >= c + 1 THEN d ELSE b

namePattern1(msg) ==
    LET low == toLowerCase(msg)
        after(i) == {i + Len(nameSignals[k]) : k \in {k \in 1..Len(nameSignals) :
                                                      matchAt(low, i, nameSignals[k])}}
        hits == {i \in 1..Len(msg) : \E p \in after(i) : nameGroupEnd(msg, p) > 0}
    IN  IF hits = {} THEN NoMatch
        ELSE LET i == Leftmost(hits)
                 p == CHOOSE p \in after(i) : nameGroupEnd(msg, p) > 0
             IN  Match(SubSeq(msg, RunEnd(msg, p, WS) + 1, nameGroupEnd(msg, p)))

\* /^([a-zA-Z]+\s+[a-zA-Z]+)$/
namePattern2(msg) ==
    LET b == RunEnd(msg, 1, Letters)
        c == RunEnd(msg, b + 1, WS)
        d == RunEnd(msg, c + 1, Letters)
    IN  IF b >= 1 /\ c >= b + 1 /\ d >= c + 1 /\ d = Len(msg)
        THEN Match(msg) ELSE NoMatch

\* /hi,?\s+([a-zA-Z]+\s+[a-zA-Z]+)/i
namePattern3(msg) ==
    LET low == toLowerCase(msg)
        wsFrom(i) == IF CharAt(msg, i + 2) = "," THEN i + 3 ELSE i + 2
        a(i) == RunEnd(msg, wsFrom(i), WS)
        b(i) == RunEnd(msg, a(i) + 1, Letters)
        c(i) == RunEnd(msg, b(i) + 1, WS)
        d(i) == RunEnd(msg, c(i) + 1, Letters)
        ok(i) == /\ matchAt(low, i, "hi")
                 /\ a(i) >= wsFrom(i)
                 /\ b(i) >= a(i) + 1
                 /\ c(i) >= b(i) + 1
                 /\ d(i) >= c(i) + 1
        hits == {i \in 1..Len(msg) : ok(i)}
    IN  IF hits = {} THEN NoMatch
        ELSE LET i == Leftmost(hits) IN Match(SubSeq(msg, a(i) + 1, d(i)))

namePatterns(msg) == <<namePattern1(msg), namePattern2(msg), namePattern3(msg)>>

\* name.length >= 2 && name.length <= 50 && /^[a-zA-Z\s]+$/.test(name)
looksLikeName(name) ==
    /\ Len(name) >= 2
    /\ Len(name) <= 50
    /\ \A i \in 1..Len(name) : CharAt(name, i) \in Letters \cup WS

\* for (const pattern of namePatterns) { ... if (looks like a name) { set; break } }
RECURSIVE nameLoop(_, _)
nameLoop(matches, n) ==
    IF n > Len(matches) THEN NoMatch
    ELSE IF /\ matches[n].found
            /\ matches[n].text # ""
            /\ looksLikeName(trim(matches[n].text))
         THEN Match(trim(matches[n].text))
         ELSE nameLoop(matches, n + 1)

extractName(msg) == nameLoop(namePatterns(msg), 1)

\* ---- street address -------------------------------------------------------
\* /(\d+\s+[a-zA-Z\s]+(?:street|st|avenue|ave|drive|dr|road|rd|lane|ln|way|court|ct|circle|cir|place|pl))/i
streetSuffixes == <<"street", "st", "avenue", "ave", "drive", "dr", "road", "rd",
                    "lane", "ln", "way", "court", "ct", "circle", "cir", "place", "pl">>

\* the first alternative of the suffix group that matches at index i, 0 when none
suffixAt(low, i) ==
    LET ks == {k \in 1..Len(streetSuffixes) : matchAt(low, i, streetSuffixes[k])}
    IN  IF ks = {} THEN 0 ELSE Leftmost(ks)

\* After the digit run that ends at index e: `\s+[a-zA-Z\s]+` greedy, backing
\* off until a suffix follows. The result is the index where the match ends,
\* 0 when there is none. The two quantifiers together cover msg[e+1..k], which
\* starts with whitespace, holds only letters and whitespace and has k >= e+2.
addressPattern1End(msg, e) ==
    LET low == toLowerCase(msg)
        r == RunEnd(msg, e + 1, Letters \cup WS)
        ks == {k \in (e + 2)..r : suffixAt(low, k + 1) > 0}
    IN  IF CharAt(msg, e + 1) \notin WS \/ ks = {} THEN 0
        ELSE LET k == Rightmost(ks)
             IN  k + Len(streetSuffixes[suffixAt(low, k + 1)])

addressPattern1(msg) ==
    LET end(i) == addressPattern1End(msg, RunEnd(msg, i, Digits))
        hits == {i \in 1..Len(msg) : CharAt(msg, i) \in Digits /\ end(i) > 0}
    IN  IF hits = {} THEN NoMatch
        ELSE LET i == Leftmost(hits) IN Match(SubSeq(msg, i, end(i)))

\* /(?:address is|live at|located at)\s+([^,\n]+)/i
addressSignals == <<"address is", "live at", "located at">>

\* `\s+([^,\n]+)` tried at index p: \s+ is greedy and gives whitespace back until
\* the capture can start; [start, end] of the capture, <<0, 0>> without a match
addressGroup(msg, p) ==
    LET a == RunEnd(msg, p, WS)
        stop(i) == i > Len(msg) \/ CharAt(msg, i) \in {",", "\n"}
        starts == {i \in (p + 1)..(a + 1) : ~stop(i)}
    IN  IF a < p \/ starts = {} THEN <<0, 0>>
        ELSE LET i == Rightmost(starts)
                 ends == {j \in i..Len(msg) : stop(j + 1) /\ \A k \in i..j : ~stop(k)}
             IN  <<i, Leftmost(ends)>>

addressPattern2(msg) ==
    LET low == toLowerCase(msg)
        after(i) == {i + Len(addressSignals[k]) : k \in {k \in 1..Len(addressSignals) :
                                                         matchAt(low, i, addressSignals[k])}}
        hits == {i \in 1..Len(msg) : \E p \in after(i) : addressGroup(msg, p)[1] > 0}
    IN  IF hits = {} THEN NoMatch
        ELSE LET i == Leftmost(hits)
                 p == CHOOSE p \in after(i) : addressGroup(msg, p)[1] > 0
                 g == addressGroup(msg, p)
             IN  Match(SubSeq(msg, g[1], g[2]))

\* /(\d{1,5}\s+[a-zA-Z\s,]+)/i : at most five digits, whitespace, then the run of
\* letters, whitespace and commas, of which \s+ takes at least one and the class
\* at least one
addressPattern3(msg) ==
    LET e(i) == RunEnd(msg, i, Digits)
        r(i) == RunEnd(msg, e(i) + 1, Letters \cup WS \cup {","})
        ok(i) == /\ CharAt(msg, i) \in Digits
                 /\ e(i) - i + 1 <= 5
                 /\ CharAt(msg, e(i) + 1) \in WS
                 /\ r(i) >= e(i) + 2
        hits == {i \in 1..Len(msg) : ok(i)}
    IN  IF hits = {} THEN NoMatch
        ELSE LET i == Leftmost(hits) IN Match(SubSeq(msg, i, r(i)))

addressPatterns(msg) ==
    <<addressPattern1(msg), addressPattern2(msg), addressPattern3(msg)>>

\* address.length >= 5 && address.length <= 100
looksLikeAddress(address) == Len(address) >= 5 /\ Len(address) <= 100

\* for (const pattern of addressPatterns) { ... if (length ok) { set; break } }
RECURSIVE addressLoop(_, _)
addressLoop(matches, n) ==
    IF n > Len(matches) THEN NoMatch
    ELSE IF /\ matches[n].found
            /\ matches[n].text # ""
            /\ looksLikeAddress(trim(matches[n].text))
         THEN Match(trim(matches[n].text))
         ELSE addressLoop(matches, n + 1)

extractAddress(msg) == addressLoop(addressPatterns(msg), 1)

\* ---- city and zip ---------------------------------------------------------
\* /([a-zA-Z\s]+),?\s+(\d{5})/ matched from index i, where a run of letters and
\* whitespace starts. With e the end of that run, the match needs either a comma
\* at e+1 followed by whitespace and five digits, or the run to end in whitespace
\* that \s+ takes back (one character of it, the capture keeping at least one)
\* followed by five digits. [found, city (untrimmed), zip].
fiveDigitsAt(msg, i) == \A k \in i..(i + 4) : CharAt(msg, k) \in Digits

cityZipAt(msg, i) ==
    LET e == RunEnd(msg, i, Letters \cup WS)
        w == RunEnd(msg, e + 2, WS)
    IN  IF e < i THEN [found |-> FALSE, city |-> "", zip |-> ""]
        ELSE IF CharAt(msg, e + 1) = "," /\ w >= e + 2 /\ fiveDigitsAt(msg, w + 1)
        THEN [found |-> TRUE, city |-> SubSeq(msg, i, e),
              zip |-> SubSeq(msg, w + 1, w + 5)]
        ELSE IF e > i /\ CharAt(msg, e) \in WS /\ fiveDigitsAt(msg, e + 1)
        THEN [found |-> TRUE, city |-> SubSeq(msg, i, e - 1),
              zip |-> SubSeq(msg, e + 1, e + 5)]
        ELSE [found |-> FALSE, city |-> "", zip |-> ""]

cityZipPattern(msg) ==
    LET hits == {i \in 1..Len(msg) : cityZipAt(msg, i).found}
    IN  IF hits = {} THEN [found |-> FALSE, city |-> "", zip |-> ""]
        ELSE cityZipAt(msg, Leftmost(hits))

\* ---- callback number ------------------------------------------------------
PhoneSeparators == {"-", ".", " ", "\t", "\n"}

\* /(\d{3}[-.\s]?\d{3}[-.\s]?\d{4})/ tried at index i: the index where the match
\* ends, 0 when it does not match
digitsAt(msg, i, n) == \A k \in i..(i + n - 1) : CharAt(msg, k) \in Digits
skipSeparator(msg, i) == IF CharAt(msg, i) \in PhoneSeparators THEN i + 1 ELSE i

phonePattern1End(msg, i) ==
    LET b == skipSeparator(msg, i + 3)
        c == skipSeparator(msg, b + 3)
    IN  IF digitsAt(msg, i, 3) /\ digitsAt(msg, b, 3) /\ digitsAt(msg, c, 4)
        THEN c + 3 ELSE 0

phonePattern1(msg) ==
    LET hits == {i \in 1..Len(msg) : phonePattern1End(msg, i) > 0}
    IN  IF hits = {} THEN NoMatch
        ELSE LET i == Leftmost(hits) IN Match(SubSeq(msg, i, phonePattern1End(msg, i)))

\* /\((\d{3})\)\s?(\d{3})[-.\s]?(\d{4})/
phonePattern2End(msg, i) ==
    LET b == IF CharAt(msg, i + 5) \in WS THEN i + 6 ELSE i + 5
        c == skipSeparator(msg, b + 3)
    IN  IF /\ CharAt(msg, i) = "("
           /\ digitsAt(msg, i + 1, 3)
           /\ CharAt(msg, i + 4) = ")"
           /\ digitsAt(msg, b, 3)
           /\ digitsAt(msg, c, 4)
        THEN c + 3 ELSE 0

phonePattern2(msg) ==
    LET hits == {i \in 1..Len(msg) : phonePattern2End(msg, i) > 0}
    IN  IF hits = {} THEN NoMatch
        ELSE LET i == Leftmost(hits) IN Match(SubSeq(msg, i, phonePattern2End(msg, i)))

phonePatterns(msg) == <<phonePattern1(msg), phonePattern2(msg)>>

\* phoneMatch[0].replace(/[^\d]/g, ''), prefixed with +1 when ten digits long
formatPhone(matched) ==
    LET number == digitsOnly(matched)
    IN  IF Len(number) = 10 THEN "+1" \o number ELSE number

\* for (const pattern of phonePatterns) { if (phoneMatch) { set; break } }
RECURSIVE phoneLoop(_, _)
phoneLoop(matches, n) ==
    IF n > Len(matches) THEN NoMatch
    ELSE IF matches[n].found THEN Match(formatPhone(matches[n].text))
         ELSE phoneLoop(matches, n + 1)

extractPhone(msg) == phoneLoop(phonePatterns(msg), 1)

\* ---- preferred time -------------------------------------------------------
\* the leftmost match of an alternation of literal words, case-insensitive;
\* the text is the message's own (match[0])
alternation(msg, words) ==
    LET low == toLowerCase(msg)
        at(i) == {k \in 1..Len(words) : matchAt(low, i, words[k])}
        hits == {i \in 1..Len(msg) : at(i) # {}}
    IN  IF hits = {} THEN NoMatch
        ELSE LET i == Leftmost(hits)
                 k == Leftmost(at(i))
             IN  Match(SubSeq(msg, i, i + Len(words[k]) - 1))

\* /(\d{1,2})\s*(am|pm)/i tried at index i: the index where the match ends
clockEnd(msg, i) ==
    LET low == toLowerCase(msg)
        meridiem(j) == matchAt(low, j, "am") \/ matchAt(low, j, "pm")
        two == RunEnd(msg, i + 2, WS) + 1
        one == RunEnd(msg, i + 1, WS) + 1
    IN  IF digitsAt(msg, i, 2) /\ meridiem(two) THEN two + 1
        ELSE IF digitsAt(msg, i, 1) /\ meridiem(one) THEN one + 1
        ELSE 0

timePattern1(msg) ==
    LET hits == {i \in 1..Len(msg) : clockEnd(msg, i) > 0}
    IN  IF hits = {} THEN NoMatch
        ELSE LET i == Leftmost(hits) IN Match(SubSeq(msg, i, clockEnd(msg, i)))

timePattern2(msg) == alternation(msg, <<"morning", "afternoon", "evening">>)
timePattern3(msg) == alternation(msg, <<"today", "tomorrow", "this week", "next week">>)
timePattern4(msg) ==
    IF alternation(msg, <<"asap", "urgent", "emergency", "right away">>).found
    THEN Match("urgent") ELSE NoMatch

timePatterns(msg) ==
    <<timePattern1(msg), timePattern2(msg), timePattern3(msg), timePattern4(msg)>>

\* for (const { pattern, extract } of timePatterns) { if (match) { set; break } }
RECURSIVE timeLoop(_, _)
timeLoop(matches, n) ==
    IF n > Len(matches) THEN NoMatch
    ELSE IF matches[n].found THEN matches[n]
         ELSE timeLoop(matches, n + 1)

extractTime(msg) == timeLoop(timePatterns(msg), 1)

\* ---- the extraction -------------------------------------------------------
requiredFields == <<"applianceType", "issueDescription", "applianceMake", "customerName",
                    "streetAddress", "city", "zipCode", "callbackNumber", "preferredTime">>

\* requiredFields.filter(field => extracted[field]).length
completedFields(extracted) ==
    Cardinality({n \in 1..Len(requiredFields) : Has(extracted, requiredFields[n])})

\* Math.round(x) for x = num / den >= 0: floor(x + 1/2)
MathRound(num, den) == (2 * num + den) \div (2 * den)

\* Variant of completionOf: the location (city and zip code together) counted as
\* one field of eight.
completionOfEight(extracted) ==
    LET others == {n \in 1..Len(requiredFields) :
                      requiredFields[n] \notin {"city", "zipCode"}
                      /\ Has(extracted, requiredFields[n])}
        location == IF Has(extracted, "city") /\ Has(extracted, "zipCode") THEN 1 ELSE 0
    IN  MathRound((Cardinality(others) + location) * 100, Len(requiredFields) - 1)

\* Math.round((completedFields.length / requiredFields.length) * 100)
completionOf(extracted) ==
    MathRound(completedFields(extracted) * 100, Len(requiredFields))

\* What the matchers find in a message. They read the message only (the prior
\* slot set enters when the loops merge their results), so one evaluation per
\* message serves every turn that carries it.
matchersOf(msg) ==
    LET msgLower == toLowerCase(msg)
        leakOrWater == includes(msgLower, "leak") \/ includes(msgLower, "water")
    IN  [appliances |-> categoryHits(appliances, msgLower),
         makes |-> categoryHits(makes, msgLower),
         issues |-> categoryHits(issues, msgLower),
         name |-> extractName(msg),
         address |-> extractAddress(msg),
         cityZip |-> cityZipPattern(msg),
         phone |-> extractPhone(msg),
         time |-> extractTime(msg),
         confirmations |-> categoryHits(confirmationPatterns, msgLower),
         locations |-> [n \in 1..Len(locationPatterns) |->
                           categoryHits(locationPatterns, msgLower)[n] /\ leakOrWater]]

\* Variant of SetIf: the matched text appended to the value the slot holds.
SetIfAppend(extracted, m, field) ==
    IF m.found
    THEN Set(extracted, field,
             IF Has(extracted, field) THEN extracted[field] \o " " \o m.text ELSE m.text)
    ELSE extracted

\* `if (match) extracted[field] = text`
SetIf(extracted, m, field) ==
    IF m.found THEN Set(extracted, field, m.text) ELSE extracted

\* if (cityZipMatch) { extracted.city = cityZipMatch[1].trim(); extracted.zipCode = cityZipMatch[2] }
withCityZip(extracted, m) ==
    IF m.found THEN Set(Set(extracted, "city", trim(m.city)), "zipCode", m.zip)
    ELSE extracted

\* extracted.completionPercentage = Math.round(...)
withCompletion(extracted) ==
    Set(extracted, "completionPercentage", completionOf(extracted))

\* the body of extractInformation, given what the matchers find in the message
extractWith(found, conversationData) ==
    LET e0 == conversationData
        e1 == categoryLoop(appliances, found.appliances, 1, e0, "applianceType")
        e2 == categoryLoop(makes, found.makes, 1, e1, "applianceMake")
        e3 == categoryLoop(issues, found.issues, 1, e2, "issueDescription")
        e4 == SetIf(e3, found.name, "customerName")
        e5 == SetIf(e4, found.address, "streetAddress")
        e6 == withCityZip(e5, found.cityZip)
        e7 == SetIf(e6, found.phone, "callbackNumber")
        e8 == SetIf(e7, found.time, "preferredTime")
        e9 == categoryLoop(confirmationPatterns, found.confirmations, 1, e8, "lastConfirmation")
        e10 == categoryLoop(locationPatterns, found.locations, 1, e9, "issueLocation")
    IN  withCompletion(e10)

(***************************************************************************)
(* The utterances of the model's customers.                                *)
(***************************************************************************)
Messages == {
    "My Samsung washer is leaking",
    "Emergency! My dishwasher is flooding",
    "It is the dryer",
    "My name is John Smith",
    "123 Main Street",
    "Austin, 78701",
    "Zip code:  78701",
    "555-123-4567",
    "morning",
    "yes",
    "I live at Oak Hill. How can I help you find it?",
    "I'm John Smith, 123 Main Street, Austin, 78701, 555-123-4567, Samsung washer leaking, morning" }

\* what the customers of the SMS and the voice handler say
Utterances == {
    "yes",
    "How much does it cost?",
    "When are you open",
    "My Samsung washer is leaking",
    "My name is John Smith" }

\* what a customer in a hurry says, and the answers to what the urgent path asks
UrgentMessages == {
    "I need someone right away",
    "It is the dryer",
    "My name is John Smith",
    "123 Main Street",
    "555-123-4567",
    "Austin, 78701" }

\* matchersOf, evaluated once per utterance
foundIn == [msg \in Messages \cup Utterances \cup UrgentMessages |-> matchersOf(msg)]

extractInformation(msg, conversationData) == extractWith(foundIn[msg], conversationData)

(***************************************************************************)
(* Flow Engine: ConversationFlowManager.                                   *)
(***************************************************************************)
\* getMissingInformation: the missing entries, in the order they are pushed
missingChecks == <<
    [entry |-> "applianceType", fields |-> {"applianceType"}],
    [entry |-> "issueDescription", fields |-> {"issueDescription"}],
    [entry |-> "applianceMake", fields |-> {"applianceMake"}],
    [entry |-> "customerName", fields |-> {"customerName"}],
    [entry |-> "streetAddress", fields |-> {"streetAddress"}],
    [entry |-> "location", fields |-> {"city", "zipCode"}],
    [entry |-> "callbackNumber", fields |-> {"callbackNumber"}],
    [entry |-> "preferredTime", fields |-> {"preferredTime"}] >>

RECURSIVE missingFrom(_, _)
missingFrom(info, n) ==
    IF n > Len(missingChecks) THEN <<>>
    ELSE (IF \E f \in missingChecks[n].fields : ~Has(info, f)
          THEN <<missingChecks[n].entry>> ELSE <<>>)
         \o missingFrom(info, n + 1)

\* Variant of getMissingInformation: the location entry decided by the zip code
\* alone.
RECURSIVE missingFromZipOnly(_, _)
missingFromZipOnly(info, n) ==
    IF n > Len(missingChecks) THEN <<>>
    ELSE (IF \E f \in missingChecks[n].fields \ {"city"} : ~Has(info, f)
          THEN <<missingChecks[n].entry>> ELSE <<>>)
         \o missingFromZipOnly(info, n + 1)

getMissingInformationZipOnly(info) == missingFromZipOnly(info, 1)

getMissingInformation(info) == missingFrom(info, 1)

getApplianceTypeQuestion(voice) ==
    IF voice THEN "What type of appliance needs repair?"
    ELSE "What type of appliance needs repair - washer, dryer, dishwasher, refrigerator, or something else?"

issueQuestions == <<
    [type |-> "washer", voice |-> "What's happening with your washer?",
     text |-> "What's happening with your washer - is it not starting, leaking water, not spinning, making loud noises, or something else?"],
    [type |-> "dryer", voice |-> "What's wrong with your dryer?",
     text |-> "What's the issue with your dryer - is it not heating, not starting, making noise, or not drying clothes properly?"],
    [type |-> "dishwasher", voice |-> "What's the dishwasher doing?",
     text |-> "What's wrong with your dishwasher - is it not cleaning dishes, not draining, leaking, or not starting?"],
    [type |-> "refrigerator", voice |-> "What's wrong with your fridge?",
     text |-> "What's the problem with your refrigerator - is it not cooling, making noise, leaking, or something else?"],
    [type |-> "oven", voice |-> "What's happening with your oven?",
     text |-> "What's happening with your oven - is it not heating, not starting, door issues, or temperature problems?"],
    [type |-> "microwave", voice |-> "What's wrong with your microwave?",
     text |-> "What's wrong with your microwave - is it not heating, not starting, making noise, or display issues?"] >>

\* questions[applianceType] || generic; applianceType is the slot set's value or
\* undefined
getIssueQuestion(info, voice) ==
    LET ks == {k \in 1..Len(issueQuestions) :
                  "applianceType" \in DOMAIN info
                  /\ issueQuestions[k].type = info["applianceType"]}
    IN  IF ks # {}
        THEN (LET q == issueQuestions[CHOOSE k \in ks : TRUE]
              IN  IF voice THEN q.voice ELSE q.text)
        ELSE IF voice THEN "What's the specific issue?"
        ELSE "What's the specific issue with your appliance?"

getMakeQuestion(info, voice) ==
    IF voice THEN "What brand is your " \o Interpolate(info, "applianceType") \o "?"
    ELSE "What's the make of your " \o Interpolate(info, "applianceType")
         \o " - is it Whirlpool, GE, Samsung, LG, or another brand?"

getNameQuestion(voice) ==
    IF voice THEN "What's your full name?"
    ELSE "Great! To schedule your repair, I'll need your full name."

getAddressQuestion(voice) ==
    IF voice THEN "What's your address?"
    ELSE "What's your address where the repair is needed?"

getLocationQuestion(voice) ==
    IF voice THEN "What city and zip code?"
    ELSE "What city and zip code is that address in?"

getPhoneQuestion(voice) ==
    IF voice THEN "Best callback number?"
    ELSE "What's the best callback number for you?"

getTimeQuestion(voice) ==
    IF voice THEN "Morning or afternoon better?"
    ELSE "When would be convenient for you - do you prefer mornings or afternoons?"

getDefaultQuestion(voice) ==
    IF voice THEN "How can I help you today?"
    ELSE "How can I help you with your appliance repair today?"

\* responses[missingField] || this.getDefaultQuestion(isVoice)
generateNextQuestion(missingField, info, voice) ==
    CASE missingField = "applianceType" -> getApplianceTypeQuestion(voice)
      [] missingField = "issueDescription" -> getIssueQuestion(info, voice)
      [] missingField = "applianceMake" -> getMakeQuestion(info, voice)
      [] missingField = "customerName" -> getNameQuestion(voice)
      [] missingField = "streetAddress" -> getAddressQuestion(voice)
      [] missingField = "location" -> getLocationQuestion(voice)
      [] missingField = "callbackNumber" -> getPhoneQuestion(voice)
      [] missingField = "preferredTime" -> getTimeQuestion(voice)
      [] OTHER -> getDefaultQuestion(voice)

issueFormats == <<
    <<"leaking", "leaking">>,
    <<"not_starting", "not starting">>,
    <<"noisy", "making noise">>,
    <<"not_heating", "not heating">>,
    <<"not_cooling", "not cooling">>,
    <<"not_spinning", "not spinning">>,
    <<"not_draining", "not draining">>,
    <<"not_cleaning", "not cleaning properly">>,
    <<"door_issue", "having door problems">>,
    <<"control_panel", "having control issues">> >>

\* formats[issue] || issue || 'having issues'
formatIssueDescription(info) ==
    LET ks == {k \in 1..Len(issueFormats) :
                  "issueDescription" \in DOMAIN info
                  /\ issueFormats[k][1] = info["issueDescription"]}
    IN  IF ks # {} THEN issueFormats[CHOOSE k \in ks : TRUE][2]
        ELSE IF Has(info, "issueDescription") THEN info["issueDescription"]
        ELSE "having issues"

generateSummaryResponse(info, voice) ==
    LET appliance == IF Has(info, "applianceMake")
                     THEN info["applianceMake"] \o " " \o Interpolate(info, "applianceType")
                     ELSE Interpolate(info, "applianceType")
        issue == formatIssueDescription(info)
        time == IF Has(info, "preferredTime") THEN info["preferredTime"]
                ELSE "your preferred time"
    IN  IF voice
        THEN "Perfect! I have " \o Interpolate(info, "customerName") \o " at "
             \o Interpolate(info, "streetAddress") \o " for a " \o appliance
             \o " that's " \o issue
             \o ". Our diagnostic fee is $89 which goes toward the repair. Most repairs are $150 to $300. Sound good?"
        ELSE "Perfect! Let me confirm:\n- Customer: " \o Interpolate(info, "customerName")
             \o "\n- Address: " \o Interpolate(info, "streetAddress") \o ", "
             \o Interpolate(info, "city") \o " " \o Interpolate(info, "zipCode")
             \o "\n- Appliance: " \o appliance \o " - " \o issue
             \o "\n- Time: " \o time
             \o "\n- Diagnostic fee: $89 (goes toward repair)\n- Repair cost: Most repairs range $150-$300\n\nIs this correct?"

\* the switch of handleDetailedCustomer
missingFieldPhrase(field) ==
    CASE field = "customerName" -> "your name"
      [] field = "callbackNumber" -> "callback number"
      [] field = "location" -> "city and zip code"
      [] field = "preferredTime" -> "preferred time"
      [] OTHER -> field

\* Array.prototype.join
RECURSIVE join(_, _)
join(parts, separator) ==
    IF Len(parts) = 0 THEN ""
    ELSE IF Len(parts) = 1 THEN parts[1]
    ELSE parts[1] \o separator \o join(Tail(parts), separator)

\* Variant of handleDetailedCustomer: the compound sentence whatever the number
\* of missing entries.
handleDetailedCustomerAlways(info, voice) ==
    LET missing == getMissingInformation(info)
        missingFields == [n \in 1..Len(missing) |-> missingFieldPhrase(missing[n])]
    IN  IF voice
        THEN "I can help with your " \o Interpolate(info, "applianceType")
             \o ". I just need " \o join(missingFields, " and ") \o "."
        ELSE "I can help with your " \o Interpolate(info, "applianceType")
             \o " repair. To schedule a technician, I just need "
             \o join(missingFields, " and ") \o "."

handleDetailedCustomer(info, voice) ==
    LET missing == getMissingInformation(info)
        missingFields == [n \in 1..Len(missing) |-> missingFieldPhrase(missing[n])]
    IN  IF Len(missing) <= 2
        THEN (IF voice
              THEN "I can help with your " \o Interpolate(info, "applianceType")
                   \o ". I just need " \o join(missingFields, " and ") \o "."
              ELSE "I can help with your " \o Interpolate(info, "applianceType")
                   \o " repair. To schedule a technician, I just need "
                   \o join(missingFields, " and ") \o ".")
        ELSE generateNextQuestion(missing[1], info, voice)

\* Variant of handleVagueCustomer: the issue question whenever the issue is missing.
handleVagueCustomerIssueFirst(info, voice) ==
    IF ~Has(info, "issueDescription")
    THEN getIssueQuestion(info, voice)
    ELSE generateNextQuestion(getMissingInformation(info)[1], info, voice)

handleVagueCustomer(info, voice) ==
    IF ~Has(info, "issueDescription") /\ Has(info, "applianceType")
    THEN getIssueQuestion(info, voice)
    ELSE generateNextQuestion(getMissingInformation(info)[1], info, voice)

handleUrgentCustomer(info, voice) ==
    IF voice
    THEN "I understand this is urgent. Let me get you scheduled quickly. What's your name and address?"
    ELSE "I understand this is urgent. To get you scheduled quickly, please provide: your name, address, and best callback number."

\* extractedInfo.completionPercentage || 0
completionIn(info) ==
    IF "completionPercentage" \in DOMAIN info THEN info["completionPercentage"] ELSE 0

\* Variant of flowBranch: the urgent path taken below 30 percent only.
flowBranchUrgentBelow30(info) ==
    LET completion == completionIn(info)
    IN  IF "preferredTime" \in DOMAIN info /\ info["preferredTime"] = "urgent"
           /\ completion < 30
        THEN "urgent"
        ELSE IF Len(getMissingInformation(info)) = 0 THEN "summary"
        ELSE IF completion >= 60 THEN "detailed"
        ELSE IF completion < 30 THEN "vague"
        ELSE "standard"

\* Variant of flowBranch: the detailed-customer test made before the test for
\* nothing missing.
flowBranchDetailedFirst(info) ==
    LET completion == completionIn(info)
    IN  IF "preferredTime" \in DOMAIN info /\ info["preferredTime"] = "urgent"
           /\ completion < 50
        THEN "urgent"
        ELSE IF completion >= 60 THEN "detailed"
        ELSE IF Len(getMissingInformation(info)) = 0 THEN "summary"
        ELSE IF completion < 30 THEN "vague"
        ELSE "standard"

\* the branch generateResponse takes
flowBranch(info) ==
    LET completion == completionIn(info)
    IN  IF "preferredTime" \in DOMAIN info /\ info["preferredTime"] = "urgent"
           /\ completion < 50
        THEN "urgent"
        ELSE IF Len(getMissingInformation(info)) = 0 THEN "summary"
        ELSE IF completion >= 60 THEN "detailed"
        ELSE IF completion < 30 THEN "vague"
        ELSE "standard"

generateResponse(info, voice) ==
    LET branch == flowBranch(info)
    IN  CASE branch = "urgent" -> handleUrgentCustomer(info, voice)
          [] branch = "summary" -> generateSummaryResponse(info, voice)
          [] branch = "detailed" -> handleDetailedCustomer(info, voice)
          [] branch = "vague" -> handleVagueCustomer(info, voice)
          [] OTHER -> generateNextQuestion(getMissingInformation(info)[1], info, voice)

(***************************************************************************)
(* The /process turn: handleEnhancedAIProcessing, for one contact whose    *)
(* turns are handled one after the other and whose state writes succeed.   *)
(***************************************************************************)
\* what the generative responder may answer (aiResult.content)
AIReplies == {"I can help you with that. What appliance needs service?"}

\* finalResponse.substring(0, limit) + '...' when longer than the limit
truncate(text, voice) ==
    IF voice /\ Len(text) > 200 THEN SubSeq(text, 1, 200) \o "..."
    ELSE IF ~voice /\ Len(text) > 1500 THEN SubSeq(text, 1, 1500) \o "..."
    ELSE text

\* !finalResponse || finalResponse.includes('How can I help')
needsAI(text) == text = "" \/ includes(text, "How can I help")

\* what handleEnhancedAIProcessing hands to its caller: a Response (status,
\* success and response of the JSON body), or no Response (status 0) and the
\* error that left the handler; `error` is what the try block threw, "" when
\* nothing was thrown
noResponse == [status |-> 0, success |-> FALSE, response |-> "", error |-> "", escaped |-> ""]

DialogueInit ==
    /\ conversation_data = EmptyObject
    /\ message = ""
    /\ isVoice = TRUE
    /\ extractedInfo = EmptyObject
    /\ flowResponse = ""
    /\ openaiCalled = FALSE
    /\ finalResponse = ""
    /\ httpResponse = noResponse

\* AIErrorResponseManager.categorizeError
categorizeError(error) ==
    LET msg == toLowerCase(error)
    IN  IF includes(msg, "quota") \/ includes(msg, "billing") THEN "openai_quota"
        ELSE IF includes(msg, "rate limit") \/ includes(msg, "429") THEN "openai_rate_limit"
        ELSE IF includes(msg, "openai") \/ includes(msg, "api") THEN "openai_api"
        ELSE IF includes(msg, "network") \/ includes(msg, "fetch") THEN "network"
        ELSE IF includes(msg, "database") \/ includes(msg, "supabase") THEN "database"
        ELSE IF includes(msg, "validation") \/ includes(msg, "missing") THEN "validation"
        ELSE "default"

\* AIErrorResponseManager.getAIErrorResponse: responses[errorType][channel]
getAIErrorResponse(error, voice) ==
    LET errorType == categorizeError(error)
    IN  CASE errorType = "openai_quota" ->
               IF voice
               THEN "I'm experiencing high demand right now. Let me connect you with someone who can help immediately."
               ELSE "I'm experiencing high demand. Please call our main number for immediate assistance."
          [] errorType = "openai_rate_limit" ->
               IF voice
               THEN "I'm processing many requests right now. Please wait a moment and try again."
               ELSE "I'm busy right now. Please wait a moment and try again."
          [] errorType = "openai_api" ->
               IF voice
               THEN "I'm having trouble understanding right now. What appliance needs service?"
               ELSE "I'm having technical issues. What appliance needs service?"
          [] errorType = "network" ->
               IF voice
               THEN "I'm having connection issues. Please try again or call our main number."
               ELSE "I'm having connection issues. Please try again or call us directly."
          [] errorType = "database" ->
               IF voice
               THEN "I'm having trouble accessing your information. Please call our main number."
               ELSE "I'm having trouble with your information. Please call our main number."
          [] errorType = "validation" ->
               IF voice
               THEN "I didn't understand that clearly. Could you tell me what appliance needs service?"
               ELSE "I didn't understand that. What appliance needs service?"
          [] OTHER ->
               IF voice
               THEN "I understand you need help. What appliance is giving you trouble?"
               ELSE "I understand you need help. What appliance needs service?"

\* the names bound where the catch block of handleEnhancedAIProcessing stands:
\* the parameters, the two timers declared before the try statement, and the
\* catch parameter.  message, tenantId, customerPhone and channel are declared
\* by a const inside the try block, whose scope ends with that block.
catchScope == {"request", "env", "ctx", "totalStartTime", "stageTimer", "error"}

\* the names the catch block evaluates, in the order it evaluates them
catchReads == <<"error", "message", "tenantId", "customerPhone", "channel",
                "totalStartTime", "error", "channel">>

\* the catch block: evaluating a name that is not bound throws a ReferenceError,
\* which leaves the handler; else the handler returns status 500 with the
\* apology of the channel
catchBlock(error, voice) ==
    LET unbound == {n \in 1..Len(catchReads) : catchReads[n] \notin catchScope}
    IN  IF unbound # {}
        THEN [status |-> 0, success |-> FALSE, response |-> "", error |-> error,
              escaped |-> "ReferenceError: " \o catchReads[Leftmost(unbound)]
                          \o " is not defined"]
        ELSE [status |-> 500, success |-> FALSE,
              response |-> getAIErrorResponse(error, voice), error |-> error,
              escaped |-> ""]

\* what the try block throws before the request body is read (validateEnvironment,
\* request.json()), and what openaiClient.processMessage throws
EarlyErrors == {"Missing required environment variables/bindings: OPENAI_API_KEY",
                "Unexpected end of JSON input"}
OpenAIErrors == {"OpenAI API error: 429 - Too Many Requests"}

\* what the catch block does with each error, evaluated once
caught == [error \in EarlyErrors \cup OpenAIErrors, voice \in BOOLEAN |->
              catchBlock(error, voice)]

\* One turn. The state it reads is the one the previous turn wrote
\* (updateConversationState with conversation_data: extractedInfo). The
\* generative call, when the turn makes it, returns a reply or throws.
Process(msg, voice) ==
    /\ message' = msg
    /\ isVoice' = voice
    /\ conversation_data' = extractedInfo
    /\ extractedInfo' = extractInformation(msg, extractedInfo)
    /\ flowResponse' = generateResponse(extractedInfo', voice)
    /\ openaiCalled' = needsAI(flowResponse')
    /\ \E aiResult \in (IF openaiCalled' THEN AIReplies \cup OpenAIErrors ELSE {""}) :
          IF aiResult \in OpenAIErrors
          THEN /\ finalResponse' = ""
               /\ httpResponse' = caught[aiResult, voice]
          ELSE /\ finalResponse' =
                     truncate(IF openaiCalled' THEN aiResult ELSE flowResponse', voice)
               /\ httpResponse' = [status |-> 200, success |-> TRUE,
                                   response |-> finalResponse', error |-> "",
                                   escaped |-> ""]

\* a turn that sends no request to /process: the stored slot set stays, and the
\* variables of the /process turn are at rest
processNotCalled ==
    /\ message' = ""
    /\ isVoice' = TRUE
    /\ conversation_data' = extractedInfo
    /\ extractedInfo' = extractedInfo
    /\ flowResponse' = ""
    /\ openaiCalled' = FALSE
    /\ finalResponse' = ""
    /\ httpResponse' = noResponse

\* A turn in which the try block throws before the body is read
\* (validateEnvironment, request.json()): nothing of the conversation has been
\* touched, and the channel is the default, 'voice'.
ProcessThrows(error) ==
    /\ message' = ""
    /\ isVoice' = TRUE
    /\ conversation_data' = extractedInfo
    /\ extractedInfo' = extractedInfo
    /\ flowResponse' = ""
    /\ openaiCalled' = FALSE
    /\ finalResponse' = ""
    /\ httpResponse' = caught[error, TRUE]

(***************************************************************************)
(* Match Scorer, FAQ instantiations: IntelligentFAQMatcher.findBestMatch   *)
(* (voice), getFAQMatch (database worker), EnhancedSMSFAQMatcher           *)
(* .findBestMatch (SMS).                                                   *)
(***************************************************************************)
\* String.prototype.split with a one-character separator
RECURSIVE split(_, _)
split(s, separator) ==
    LET at == {i \in 1..Len(s) : CharAt(s, i) = separator}
    IN  IF at = {} THEN <<s>>
        ELSE LET i == Leftmost(at)
             IN  <<SubSeq(s, 1, i - 1)>> \o split(SubSeq(s, i + 1, Len(s)), separator)

\* faq.keywords.split(',').map(k => k.trim().toLowerCase())
keywordsOf(faq) ==
    LET parts == split(faq.keywords, ",")
    IN  [n \in 1..Len(parts) |-> toLowerCase(trim(parts[n]))]

\* faq.question.toLowerCase().split(' ')
questionWordsOf(faq) == split(toLowerCase(faq.question), " ")

\* new RegExp(`\\b${keyword}\\b`, 'i').test(inputLower), for a keyword of letters,
\* digits and spaces: an occurrence with a word boundary at both of its ends
wordBoundary(s, i) == (CharAt(s, i - 1) \in WordChars) # (CharAt(s, i) \in WordChars)

wholeWordIn(inputLower, keyword) ==
    \E i \in 1..(Len(inputLower) - Len(keyword) + 1) :
        /\ matchAt(inputLower, i, keyword)
        /\ wordBoundary(inputLower, i)
        /\ wordBoundary(inputLower, i + Len(keyword))




\* voice and database worker: score += 3 for every keyword in the query
keywordPoints(faq, inputLower) ==
    IF faq.keywords = "" THEN 0
    ELSE LET keywords == keywordsOf(faq)
         IN  3 * Cardinality({n \in 1..Len(keywords) :
                           keywords[n] # "" /\ includes(inputLower, keywords[n])})

\* SMS: score += 4 for a keyword found as a whole word, 2 for one found inside a word
smsKeywordPoints(faq, inputLower) ==
    IF faq.keywords = "" THEN 0
    ELSE LET keywords == keywordsOf(faq)
             found == {n \in 1..Len(keywords) :
                          keywords[n] # "" /\ includes(inputLower, keywords[n])}
             whole == {n \in found : wholeWordIn(inputLower, keywords[n])}
         IN  4 * Cardinality(whole) + 2 * Cardinality(found \ whole)

\* score += 1 for every question word longer than three characters in the query
questionPoints(faq, inputLower) ==
    IF faq.question = "" THEN 0
    ELSE LET words == questionWordsOf(faq)
         IN  Cardinality({n \in 1..Len(words) :
                       Len(words[n]) > 3 /\ includes(inputLower, words[n])})

(***************************************************************************)
(* The FAQ rows of the model's tenant and the queries put to them.         *)
(***************************************************************************)
RECURSIVE repeat(_, _)
repeat(s, n) == IF n = 0 THEN "" ELSE s \o repeat(s, n - 1)

FaqRow(id, question, response, keywords) ==
    [id |-> id, question |-> question, response |-> response,
     keywords |-> keywords, usage_count |-> 0]

FaqRows == <<
    FaqRow(1, "How much does a repair cost?",
           "Our diagnostic fee is $89 which goes toward the repair. Most repairs are $150 to $300.",
           "price, cost, fee"),
    FaqRow(2, "What are your business hours?",
           "We are open Monday through Friday, 8 AM to 6 PM.",
           "hours,open"),
    FaqRow(3, "Do you offer a warranty on repairs?",
           repeat("Every repair carries a ninety day warranty on parts and labor. ", 14),
           "warranty, guarantee"),
    FaqRow(4, "When are you open?",
           "You can reach our service team Monday through Friday, 8 AM to 6 PM.",
           "hours,open") >>

\* the catalogs a tenant may hold: row numbers of FaqRows, in the order the
\* store returns them
FaqCatalogs == {<<>>, <<1, 2>>, <<2, 1>>, <<3>>}

Queries == {
    "How much does it cost?",
    "Is it costly",
    "When are you open",
    "My washer is leaking" }

\* what the text of a FAQ row scores against a query: the part of the score that
\* does not read usage_count, evaluated once per row and query
textPoints ==
    [id \in 1..Len(FaqRows), query \in Queries \cup Utterances |->
        LET inputLower == toLowerCase(query)
        IN  [keywords |-> keywordPoints(FaqRows[id], inputLower),
             smsKeywords |-> smsKeywordPoints(FaqRows[id], inputLower),
             question |-> questionPoints(FaqRows[id], inputLower)]]

min(a, b) == IF a < b THEN a ELSE b

\* Scores are kept in tenths of a point, so that usage_count / 10 and
\* usage_count / 5 stay integers.
\* if (faq.usage_count > 0) score += Math.min(faq.usage_count / 10, 2)
usageBonus(faq) == IF faq.usage_count > 0 THEN min(faq.usage_count, 20) ELSE 0

\* if (faq.usage_count > 0) score += Math.min(faq.usage_count / 5, 3)
smsUsageBonus(faq) == IF faq.usage_count > 0 THEN min(2 * faq.usage_count, 30) ELSE 0

\* if (faq.response && faq.response.length > 800) score -= 1
smsLengthPenalty(faq) == IF faq.response # "" /\ Len(faq.response) > 800 THEN 10 ELSE 0

faqScore(faq, query) ==
    10 * (textPoints[faq.id, query].keywords + textPoints[faq.id, query].question)
    + usageBonus(faq)

smsFaqScore(faq, query) ==
    10 * (textPoints[faq.id, query].smsKeywords + textPoints[faq.id, query].question)
    + smsUsageBonus(faq) - smsLengthPenalty(faq)

\* a sort that is not stable: of the FAQs with the highest score the last of the
\* catalog comes first
bestMatchLast(faqList, score, minimum) ==
    LET matches == {n \in 1..Len(faqList) : score[n] > 0}
        top == {n \in matches : \A m \in matches : score[m] <= score[n]}
    IN  IF matches # {} /\ score[Rightmost(top)] >= minimum
        THEN faqList[Rightmost(top)].id
        ELSE 0

\* matches = the FAQs with score > 0; matches.sort((a, b) => b.score - a.score);
\* matches[0] if its score reaches the minimum, else null.  The sort is stable:
\* of the FAQs with the highest score the first of the catalog comes first.
\* The result is the id of the FAQ returned, 0 for null.
bestMatch(faqList, score, minimum) ==
    LET matches == {n \in 1..Len(faqList) : score[n] > 0}
        top == {n \in matches : \A m \in matches : score[m] <= score[n]}
    IN  IF matches # {} /\ score[Leftmost(top)] >= minimum
        THEN faqList[Leftmost(top)].id
        ELSE 0

IntelligentFAQMatcher(faqList, query) ==
    IF faqList = <<>> \/ query = "" THEN 0
    ELSE bestMatch(faqList, [n \in 1..Len(faqList) |-> faqScore(faqList[n], query)], 20)

getFAQMatch(faqList, query) ==
    IF faqList = <<>> THEN 0
    ELSE bestMatch(faqList, [n \in 1..Len(faqList) |-> faqScore(faqList[n], query)], 20)

EnhancedSMSFAQMatcher(faqList, query) ==
    IF faqList = <<>> \/ query = "" THEN 0
    ELSE bestMatch(faqList, [n \in 1..Len(faqList) |-> smsFaqScore(faqList[n], query)], 30)

\* updateFAQUsage: read the row's usage_count, write usage_count + 1
withUsage(faqList, faqId) ==
    [n \in 1..Len(faqList) |->
        IF faqList[n].id = faqId
        THEN [faqList[n] EXCEPT !.usage_count = faqList[n].usage_count + 1]
        ELSE faqList[n]]

\* usage_count is unbounded in the store; the model stops counting at MaxUsage
MaxUsage == 20

usageBelowMax(faqList, faqId) ==
    \A n \in 1..Len(faqList) : faqList[n].id = faqId => faqList[n].usage_count < MaxUsage

noFaqMatch == [matcher |-> "none", id |-> 0]

\* voice call handler: IntelligentFAQMatcher.findBestMatch(faqs, speechResult)
VoiceFaqLookup(query) ==
    /\ userInput' = query
    /\ faqMatch' = [matcher |-> "voice", id |-> IntelligentFAQMatcher(faqs, query)]
    /\ UNCHANGED faqs

\* database worker, POST /faqs: getFAQMatch(companyId, query)
FaqEndpoint(query) ==
    /\ userInput' = query
    /\ faqMatch' = [matcher |-> "database", id |-> getFAQMatch(faqs, query)]
    /\ UNCHANGED faqs

\* database worker, POST /faq-usage: updateFAQUsage(faqId)
FaqUsageEndpoint(faqId) ==
    /\ usageBelowMax(faqs, faqId)
    /\ faqs' = withUsage(faqs, faqId)
    /\ UNCHANGED <<userInput, faqMatch>>

\* SMS handler: EnhancedSMSFAQMatcher.findBestMatch(faqs, message), and on a
\* match the usage update handed to ctx.waitUntil, which may fail silently
SmsFaqLookup(query, updated) ==
    /\ userInput' = query
    /\ faqMatch' = [matcher |-> "sms", id |-> EnhancedSMSFAQMatcher(faqs, query)]
    /\ faqs' = IF updated /\ faqMatch'.id # 0 /\ usageBelowMax(faqs, faqMatch'.id)
               THEN withUsage(faqs, faqMatch'.id)
               ELSE faqs

\* EnhancedSMSFAQMatcher.findBestMatch(faqs, userInput) alone
SmsFindBestMatch(query) ==
    /\ userInput' = query
    /\ faqMatch' = [matcher |-> "sms", id |-> EnhancedSMSFAQMatcher(faqs, query)]
    /\ UNCHANGED faqs

(***************************************************************************)
(* Match Scorer, pre-recorded audio: ResponseAudioMatcher.                 *)
(***************************************************************************)
Rule(templateKey, keywords) == [templateKey |-> templateKey, keywords |-> keywords]

matchingRules == <<
    Rule("greeting", <<"hi", "hello", "sarah", "help you today", "how can i help">>),
    Rule("understand", <<"i understand", "let me help", "help you with that">>),
    Rule("what_appliance", <<"what appliance", "which appliance", "appliance needs service">>),
    Rule("what_issue", <<"what issue", "what's the issue", "experiencing", "what problem">>),
    Rule("check_availability", <<"check availability", "check our availability", "let me check">>),
    Rule("diagnostic_fee", <<"diagnostic fee", "89 dollars", "goes toward", "repair">>),
    Rule("address_question", <<"what is your address", "address", "where are you located">>),
    Rule("time_preference", <<"when would be convenient", "mornings or afternoons", "time preference">>),
    Rule("appointment_scheduled", <<"perfect", "i have you scheduled", "scheduled", "appointment set">>),
    Rule("anything_else", <<"anything else", "else i can help", "other questions">>),
    Rule("common_issue", <<"common problem", "definitely help", "we can help">>),
    Rule("technician_intro", <<"mike rodriguez", "technician", "diagnose and fix">>),
    Rule("repair_cost_range", <<"repairs range from", "150 to 300", "cost range">>),
    Rule("business_hours", <<"monday through friday", "8 am to 6 pm", "business hours">>),
    Rule("appointment_confirmed", <<"appointment is confirmed", "confirmed">>),
    Rule("processing_moment", <<"one moment", "looking that up", "please wait">>),
    Rule("greeting_confirmed", <<"great", "how can i help", "help you today">>),
    Rule("greeting_hurry_sms", <<"understand your concerns", "respect your time", "text message",
                                 "full name", "address", "appliance", "scheduled faster">>) >>

conversationFlowPatterns == <<
    "i can help with your",
    "i just need",
    "what city and zip",
    "best callback number",
    "morning or afternoon",
    "preferred time",
    "what's your full name",
    "what's your address",
    "what brand is your",
    "what's happening with",
    "what's wrong with",
    "what type of appliance",
    "perfect! i have" >>

\* this.matchingRules[templateKey] || []
keywordsFor(templateKey) ==
    LET ks == {k \in 1..Len(matchingRules) : matchingRules[k].templateKey = templateKey}
    IN  IF ks = {} THEN <<>> ELSE matchingRules[CHOOSE k \in ks : TRUE].keywords

isConversationFlowResponse(text) ==
    IF text = "" THEN FALSE
    ELSE IF includes(text, "diagnostic fee") \/ includes(text, "$89") \/ includes(text, "repair")
    THEN FALSE
    ELSE LET responseLower == toLowerCase(text)
         IN  \E k \in 1..Len(conversationFlowPatterns) :
                 includes(responseLower, conversationFlowPatterns[k])

\* the score of one template: the lengths of its keywords found in the reply,
\* and 50 more when the reply is exactly one of them
templateScore(text, templateKey) ==
    LET responseLower == toLowerCase(text)
        keywords == keywordsFor(templateKey)
        found == {k \in 1..Len(keywords) : includes(responseLower, toLowerCase(keywords[k]))}
        RECURSIVE lengths(_)
        lengths(S) == IF S = {} THEN 0
                      ELSE LET k == CHOOSE x \in S : TRUE
                           IN  Len(keywords[k]) + lengths(S \ {k})
    IN  lengths(found)
        + (IF \E k \in 1..Len(keywords) : responseLower = toLowerCase(keywords[k])
           THEN 50 ELSE 0)

\* the templates the voice handler asks the cache for, in this order
commonTemplates == <<
    "understand", "what_appliance", "what_issue", "check_availability",
    "diagnostic_fee", "common_issue", "technician_intro", "anything_else" >>

\* getCachedAudioBatch: the requested keys that have a cached clip, in the order
\* requested
RECURSIVE cachedBatch(_, _, _)
cachedBatch(templateKeys, cached, n) ==
    IF n > Len(templateKeys) THEN <<>>
    ELSE (IF templateKeys[n] \in cached THEN <<templateKeys[n]>> ELSE <<>>)
         \o cachedBatch(templateKeys, cached, n + 1)

getCachedAudioBatch(templateKeys, cached) == cachedBatch(templateKeys, cached, 1)

\* slot sets of callers at different points of the dialogue: the preferred time
\* missing; name and callback number missing; address and location missing; an
\* urgent caller
callerSlots == {
    [applianceType |-> "washer", applianceMake |-> "Samsung", issueDescription |-> "leaking",
     customerName |-> "John Smith", streetAddress |-> "123 Main Street", city |-> "Austin",
     zipCode |-> "78701", callbackNumber |-> "+15551234567", completionPercentage |-> 89],
    [applianceType |-> "dryer", applianceMake |-> "Ge", issueDescription |-> "not_heating",
     streetAddress |-> "123 Main Street", city |-> "Austin", zipCode |-> "78701",
     preferredTime |-> "morning", completionPercentage |-> 78],
    [applianceType |-> "oven", applianceMake |-> "Lg", issueDescription |-> "not_heating",
     customerName |-> "John Smith", callbackNumber |-> "+15551234567",
     preferredTime |-> "morning", completionPercentage |-> 67],
    [applianceType |-> "washer", applianceMake |-> "Ge", issueDescription |-> "leaking",
     preferredTime |-> "urgent", completionPercentage |-> 44] }

\* replies generateResponse returns on the voice channel that disclose no price:
\* the questions, the compound sentence and the urgent response
VoiceFlowReplies ==
    {generateNextQuestion(entry, [applianceType |-> "washer"], TRUE) :
        entry \in {"applianceType", "issueDescription", "applianceMake", "customerName",
                   "streetAddress", "location", "callbackNumber", "preferredTime"}}
    \cup {getIssueQuestion([applianceType |-> issueQuestions[k].type], TRUE) :
             k \in 1..Len(issueQuestions)}
    \cup {getIssueQuestion([applianceType |-> "garbage_disposal"], TRUE)}
    \cup {generateResponse(info, TRUE) : info \in callerSlots}

\* what the voice handler may hold as aiResponse: a FAQ's response, a reply of
\* the Flow Engine on the voice channel, or the content the language model returned
AudioReplies == VoiceFlowReplies \cup {
    FaqRows[1].response,
    FaqRows[2].response,
    FaqRows[4].response,
    "I can help you with that. What appliance needs service?",
    "I understand. What's your full name?",
    "What's your full name? I'll send a technician.",
    "What's your full name? We'll schedule the repair.",
    "What's your full name? Our diagnostic fee is $89.",
    "Let me check our availability. A technician will diagnose and fix it.",
    "Let me help. We can help with that." }

flowDetected == [text \in AudioReplies |-> isConversationFlowResponse(text)]

templateScores ==
    [text \in AudioReplies, k \in 1..Len(matchingRules) |->
        templateScore(text, matchingRules[k].templateKey)]

scoreOf(text, templateKey) ==
    LET ks == {k \in 1..Len(matchingRules) : matchingRules[k].templateKey = templateKey}
    IN  IF ks = {} THEN 0
        ELSE IF text \in AudioReplies THEN templateScores[text, CHOOSE k \in ks : TRUE]
        ELSE templateScore(text, templateKey)

\* findBestMatch: the first entry of the cache with the highest score above 5
\* ("null" when there is none, or the reply is a conversation-flow response)
findBestMatch(text, cache) ==
    IF text = "" \/ cache = <<>> THEN "null"
    ELSE IF (IF text \in AudioReplies THEN flowDetected[text]
             ELSE isConversationFlowResponse(text)) THEN "null"
    ELSE LET scored == {n \in 1..Len(cache) : scoreOf(text, cache[n]) > 5}
             top == {n \in scored :
                        \A m \in scored : scoreOf(text, cache[m]) <= scoreOf(text, cache[n])}
         IN  IF scored = {} THEN "null" ELSE cache[Leftmost(top)]

\* voice handler: load the cached clips of the common templates, then match the
\* reply against them
matchResponseToCache(text) ==
    /\ aiResponse' = text
    /\ audioCache' = getCachedAudioBatch(commonTemplates, audioClips)
    /\ audioMatch' = findBestMatch(text, audioCache')
    /\ UNCHANGED audioClips

(***************************************************************************)
(* Conversation State Lifecycle: EnhancedConversationStateManager over the *)
(* table conversation_states, with /process requests that overlap.         *)
(***************************************************************************)
\* the invocations of the worker that may run at the same time
Workers == {1, 2}

\* the organization of a request without tenantId, and of a tenantId that is
\* not a UUID
defaultOrganizationId == "86851e15-2618-4105-93be-0bfb023f1aec"

\* /^[0-9a-f]{8}-[0-9a-f]{4}-[0-9a-f]{4}-[0-9a-f]{4}-[0-9a-f]{12}$/i
isUuid(s) ==
    /\ Len(s) = 36
    /\ \A i \in 1..36 :
          IF i \in {9, 14, 19, 24} THEN CharAt(s, i) = "-"
          ELSE \E k \in 1..22 : CharAt(s, i) = CharAt("0123456789abcdefABCDEF", k)

resolveOrganizationId(tenantId) ==
    IF tenantId = "" THEN defaultOrganizationId
    ELSE IF isUuid(tenantId) THEN tenantId
    ELSE IF tenantId = "abz-appliance" THEN defaultOrganizationId
    ELSE defaultOrganizationId

\* the bodies of the /process requests: one contact of three tenants, two known
\* by a name and one by its UUID
StoreRequests ==
    {[tenantId |-> "abz-appliance", customerPhone |-> "+15551234567",
      message |-> "My Samsung washer is leaking", channel |-> "sms"],
     [tenantId |-> "acme-repair", customerPhone |-> "+15551234567",
      message |-> "My name is John Smith", channel |-> "voice"],
     [tenantId |-> "0b9d4c1e-5a3f-4e2b-9c7d-1f2e3a4b5c6d", customerPhone |-> "+15551234567",
      message |-> "My Samsung washer is leaking", channel |-> "voice"]}

\* resolveOrganizationId, evaluated once per tenantId
organizationOf ==
    [tenantId \in {body.tenantId : body \in StoreRequests} |->
        resolveOrganizationId(tenantId)]

\* no request arrives after MaxTime
MaxTime == 3

\* the state getConversationState returns from its catch block: it has no id
transientState ==
    [conversation_data |-> EmptyObject, current_step |-> "greeting", is_active |-> TRUE]

\* conversationState.id, 0 for undefined
stateId(state) == IF "id" \in DOMAIN state THEN state.id ELSE 0

\* the row the POST of getConversationState inserts
newState(id, organizationId, customerPhone, time) ==
    [id |-> id, organization_id |-> organizationId, customer_phone |-> customerPhone,
     conversation_data |-> EmptyObject, current_step |-> "greeting", is_active |-> TRUE,
     expires_at |-> time + 24, created_at |-> time, updated_at |-> time]

\* organization_id=eq.X & customer_phone=eq.Y & is_active=eq.true
activeStates(rows, organizationId, customerPhone) ==
    {n \in 1..Len(rows) : /\ rows[n].organization_id = organizationId
                          /\ rows[n].customer_phone = customerPhone
                          /\ rows[n].is_active}

\* a lookup without the order: any row of S
anyOf(rows, S) == S

\* order=updated_at.desc & limit=1: a row of S that none of S was updated after
mostRecent(rows, S) ==
    {n \in S : \A m \in S : rows[m].updated_at <= rows[n].updated_at}

noWrite == [state |-> "none", id |-> 0, conversation_data |-> EmptyObject, updated_at |-> 0]

noTurn ==
    [pc |-> "idle", tenantId |-> "", organizationId |-> "", customerPhone |-> "",
     message |-> "",
     isVoice |-> TRUE, conversationState |-> EmptyObject, extractedInfo |-> EmptyObject,
     response |-> "", status |-> 0, write |-> noWrite]

\* the previous request of invocation w is over
free(w) == turns[w].pc \in {"idle", "replied"} /\ turns[w].write.state # "pending"

\* a /process request arrives; the invocations are interchangeable, and the
\* request goes to the first free one
Receive(w, body) ==
    /\ free(w)
    /\ \A v \in Workers : v < w => ~free(v)
    /\ now < MaxTime
    /\ now' = now + 1
    /\ turns' = [turns EXCEPT ![w] =
                    [noTurn EXCEPT !.pc = "lookup", !.tenantId = body.tenantId,
                                   !.organizationId = organizationOf[body.tenantId],
                                   !.customerPhone = body.customerPhone,
                                   !.message = body.message,
                                   !.isVoice = (body.channel = "voice")]]
    /\ UNCHANGED conversation_states

\* getConversationState, the GET: the most recently updated active row, or none;
\* a failed query goes to the catch block
GetStateLookup(w, ok) ==
    /\ turns[w].pc = "lookup"
    /\ LET active == activeStates(conversation_states, turns[w].organizationId,
                                  turns[w].customerPhone)
       IN  IF ~ok
           THEN turns' = [turns EXCEPT ![w].pc = "extract",
                                       ![w].conversationState = transientState]
           ELSE IF active = {}
           THEN turns' = [turns EXCEPT ![w].pc = "insert"]
           ELSE \E n \in mostRecent(conversation_states, active) :
                   turns' = [turns EXCEPT ![w].pc = "extract",
                                          ![w].conversationState = conversation_states[n]]
    /\ UNCHANGED <<conversation_states, now>>

\* a POST whose failure is not caught: the request ends with the 500 response
GetStateInsertThrows(w, ok) ==
    /\ turns[w].pc = "insert"
    /\ IF ok
       THEN /\ conversation_states' =
                  Append(conversation_states,
                         newState(Len(conversation_states) + 1, turns[w].organizationId,
                                  turns[w].customerPhone, now))
            /\ turns' = [turns EXCEPT
                            ![w].pc = "extract",
                            ![w].conversationState =
                                conversation_states'[Len(conversation_states')]]
       ELSE /\ turns' = [turns EXCEPT ![w].pc = "replied", ![w].status = 500]
            /\ UNCHANGED conversation_states
    /\ UNCHANGED now

\* getConversationState, the POST when the GET found no row
GetStateInsert(w, ok) ==
    /\ turns[w].pc = "insert"
    /\ IF ok
       THEN /\ conversation_states' =
                  Append(conversation_states,
                         newState(Len(conversation_states) + 1, turns[w].organizationId,
                                  turns[w].customerPhone, now))
            /\ turns' = [turns EXCEPT
                            ![w].pc = "extract",
                            ![w].conversationState =
                                conversation_states'[Len(conversation_states')]]
       ELSE /\ turns' = [turns EXCEPT ![w].pc = "extract",
                                      ![w].conversationState = transientState]
            /\ UNCHANGED conversation_states
    /\ UNCHANGED now

\* an update without the guard on the id: a PATCH whenever the slot sets differ
issuedWriteWithoutId(state, extracted, time) ==
    IF extracted # state.conversation_data
    THEN [state |-> "pending", id |-> stateId(state), conversation_data |-> extracted,
          updated_at |-> time]
    ELSE noWrite

\* updateConversationState(stateId, {conversation_data}): nothing without an id,
\* else a PATCH stamped with the time of the call
issuedWrite(state, extracted, time) ==
    IF extracted # state.conversation_data /\ stateId(state) # 0
    THEN [state |-> "pending", id |-> stateId(state), conversation_data |-> extracted,
          updated_at |-> time]
    ELSE noWrite

\* the response of the turn: the Flow Engine's, or the generative responder's
replyOf(extracted, voice, content) ==
    LET scripted == generateResponse(extracted, voice)
    IN  truncate(IF needsAI(scripted) THEN content ELSE scripted, voice)

\* the rest of handleEnhancedAIProcessing: extraction, the state update (not
\* awaited), the reply and the 200 response
Respond(w, content) ==
    /\ turns[w].pc = "extract"
    /\ LET extracted == extractInformation(turns[w].message,
                                           turns[w].conversationState.conversation_data)
       IN  turns' = [turns EXCEPT
                        ![w].pc = "replied",
                        ![w].extractedInfo = extracted,
                        ![w].write = issuedWrite(turns[w].conversationState, extracted, now),
                        ![w].response = replyOf(extracted, turns[w].isVoice, content),
                        ![w].status = 200]
    /\ UNCHANGED <<conversation_states, now>>

\* a PATCH with a compare-and-swap check: it changes the row only while the row
\* still holds the slot set the turn read
WriteCompareAndSwap(w) ==
    /\ turns[w].write.state = "pending"
    /\ conversation_states' =
          IF conversation_states[turns[w].write.id].conversation_data
                = turns[w].conversationState.conversation_data
          THEN [conversation_states EXCEPT
                  ![turns[w].write.id].conversation_data = turns[w].write.conversation_data,
                  ![turns[w].write.id].updated_at = turns[w].write.updated_at]
          ELSE conversation_states
    /\ turns' = [turns EXCEPT ![w].write.state = "applied"]
    /\ UNCHANGED now

\* the store applies the PATCH of a turn
WriteApplied(w) ==
    /\ turns[w].write.state = "pending"
    /\ conversation_states' =
          [conversation_states EXCEPT
              ![turns[w].write.id].conversation_data = turns[w].write.conversation_data,
              ![turns[w].write.id].updated_at = turns[w].write.updated_at]
    /\ turns' = [turns EXCEPT ![w].write.state = "applied"]
    /\ UNCHANGED now

\* a failed PATCH that reaches the caller: the turn ends with the 500 response
WriteFailedSurfaces(w) ==
    /\ turns[w].write.state = "pending"
    /\ turns' = [turns EXCEPT ![w].write.state = "failed", ![w].status = 500,
                              ![w].response = ""]
    /\ UNCHANGED <<conversation_states, now>>

\* the PATCH fails: the catch block of updateConversationState logs it
WriteFailed(w) ==
    /\ turns[w].write.state = "pending"
    /\ turns' = [turns EXCEPT ![w].write.state = "failed"]
    /\ UNCHANGED <<conversation_states, now>>

\* the PATCH never completes: nothing waits for it once the response is returned
WriteLost(w) ==
    /\ turns[w].write.state = "pending"
    /\ turns' = [turns EXCEPT ![w].write.state = "lost"]
    /\ UNCHANGED <<conversation_states, now>>

StoreIdle ==
    /\ conversation_states = <<>>
    /\ turns = [w \in Workers |-> noTurn]
    /\ now = 0

(***************************************************************************)
(* The channel handlers: handleEnhancedSMS of the SMS worker and the        *)
(* regular-conversation part of the voice call handler.                    *)
(***************************************************************************)
\* String.prototype.replace with a string pattern: the first occurrence
replace(s, pattern, replacement) ==
    LET at == {i \in 1..(Len(s) - Len(pattern) + 1) :
                  SubSeq(s, i, i + Len(pattern) - 1) = pattern}
    IN  IF at = {} THEN s
        ELSE SubSeq(s, 1, Leftmost(at) - 1) \o replacement
             \o SubSeq(s, Leftmost(at) + Len(pattern), Len(s))

quickResponses == <<
    [pattern |-> "hi",
     response |-> "Hi! I'm Sarah, your virtual assistant. How can I help you today?"],
    [pattern |-> "hello",
     response |-> "Hello! I'm Sarah, your virtual assistant. How can I help you today?"],
    [pattern |-> "help", response |-> "I'm here to help! What appliance needs service?"],
    [pattern |-> "hours",
     response |-> "We're typically available 8 AM - 6 PM Monday-Saturday. What can I help you with?"],
    [pattern |-> "price",
     response |-> "Our diagnostic fee is $89. Once we identify the issue, we'll provide a repair quote. What appliance needs service?"],
    [pattern |-> "cost",
     response |-> "Our diagnostic fee is $89. Once we identify the issue, we'll provide a repair quote. What appliance needs service?"],
    [pattern |-> "thanks",
     response |-> "You're welcome! Is there anything else I can help you with?"],
    [pattern |-> "thank you",
     response |-> "You're welcome! Is there anything else I can help you with?"],
    [pattern |-> "yes", response |-> "Great! What can I help you with?"],
    [pattern |-> "no", response |-> "Okay! If you need anything else, just let me know."] >>

\* getQuickResponse: the response of the first pattern that equals the message
\* or, when longer than two characters, occurs in it; "" for null
getQuickResponse(msg) ==
    LET msgLower == toLowerCase(msg)
        hits == {n \in 1..Len(quickResponses) :
                    \/ msgLower = quickResponses[n].pattern
                    \/ /\ Len(quickResponses[n].pattern) > 2
                       /\ includes(msgLower, quickResponses[n].pattern)}
    IN  IF hits = {} THEN "" ELSE quickResponses[Leftmost(hits)].response

\* cachedFaq.response of the FAQ with the given id
responseOf(faqList, faqId) ==
    LET ns == {n \in 1..Len(faqList) : faqList[n].id = faqId}
    IN  faqList[Leftmost(ns)].response

\* a FAQ answer sent as it is stored
verbatim(response, businessName) == response

\* the SMS handler's business-name customisation of a FAQ answer
customized(response, businessName) ==
    IF businessName # "" /\ ~includes(response, businessName)
    THEN replace(response, "our service", businessName)
    ELSE response

\* config.business_name of the tenant: absent, or a name
BusinessNames == {"", "Acme Appliance"}

\* the reply of the SMS handler's catch block to a failed AI service call
smsErrorResponse ==
    "I'm experiencing technical difficulties. Please call our main number for immediate assistance."

\* ErrorResponseManager.categorizeError of the voice worker
ErrorResponseManager_categorizeError(error) ==
    LET msg == toLowerCase(error)
    IN  IF includes(msg, "network") \/ includes(msg, "fetch") THEN "network"
        ELSE IF includes(msg, "openai") \/ includes(msg, "ai") THEN "ai"
        ELSE IF includes(msg, "elevenlabs") \/ includes(msg, "voice") THEN "voice"
        ELSE IF includes(msg, "database") \/ includes(msg, "supabase") THEN "database"
        ELSE IF includes(msg, "validation") \/ includes(msg, "missing") THEN "validation"
        ELSE "default"

\* ErrorResponseManager.getVoiceErrorResponse
getVoiceErrorResponse(error, businessName) ==
    LET errorType == ErrorResponseManager_categorizeError(error)
    IN  CASE errorType = "network" ->
               "I'm having trouble connecting right now. Please call " \o businessName
                  \o " directly or try again in a moment."
          [] errorType = "ai" ->
               "I'm experiencing some technical difficulties. Let me connect you with someone who can help."
          [] errorType = "voice" ->
               "I'm having trouble with voice generation. Please call our main number for immediate assistance."
          [] errorType = "database" ->
               "I'm having trouble accessing your information right now. Please try calling again in a moment."
          [] errorType = "validation" ->
               "I didn't receive your information properly. Could you please try your call again?"
          [] OTHER ->
               "I'm sorry, I'm experiencing technical issues. Please call our main number for immediate help."

\* getQuickResponse and the customisation of the FAQ answers, evaluated once per
\* input
quickResponseOf == [msg \in Utterances |-> getQuickResponse(msg)]
customizedResponses ==
    [faqId \in 1..Len(FaqRows), businessName \in BusinessNames |->
        customized(FaqRows[faqId].response, businessName)]

noChannelTurn ==
    [channel |-> "none", utterance |-> "", path |-> "none", catalog |-> "none",
     config |-> "none", businessName |-> "", reply |-> "", verb |-> "none",
     formRead |-> FALSE, error |-> "", escaped |-> ""]

\* what a handler did in a turn: the path it took, whether the FAQ catalog was
\* loaded ("none" when the turn ended before the load), the reply and the TwiML
\* verb that carries it. `config` is the outcome of a tenant-configuration
\* lookup the handler awaits unguarded, `error` the error its try block threw,
\* `escaped` the error that left the handler ("" when it returned a response).
channelReply(channel, utterance, path, catalog, businessName, reply) ==
    [channel |-> channel, utterance |-> utterance, path |-> path, catalog |-> catalog,
     config |-> "none", businessName |-> businessName, reply |-> reply,
     verb |-> IF channel = "sms" THEN "Message" ELSE "Play",
     formRead |-> TRUE, error |-> "", escaped |-> ""]

\* a turn that calls no FAQ matcher
faqNotMatched == userInput' = "" /\ faqMatch' = noFaqMatch /\ faqs' = faqs

\* a turn that matches no reply against the audio cache
audioNotMatched ==
    aiResponse' = "" /\ audioCache' = <<>> /\ audioMatch' = "null" /\ audioClips' = audioClips

loadOf(loaded) == IF loaded THEN "loaded" ELSE "failed"

\* EnhancedSMSDatabaseClient.batchLoad, the faqs it returns: the catalog, or []
\* when getOrganizationFAQs fails
batchLoad(catalog, loaded) == IF loaded THEN catalog ELSE <<>>

\* handleEnhancedSMS: quick response, else the catalog load, which may fail, and
\* the FAQ match (with the usage update, which may fail silently, and the
\* tenant's business name in the answer), else the AI service with channel
\* 'sms', which may fail
SmsTurn(msg) ==
    /\ audioNotMatched
    /\ IF quickResponseOf[msg] # ""
       THEN /\ channelTurn' = channelReply("sms", msg, "quick", "none", "",
                                           quickResponseOf[msg])
            /\ processNotCalled
            /\ faqNotMatched
       ELSE \E loaded \in BOOLEAN :
            LET cachedFaq == EnhancedSMSFAQMatcher(batchLoad(faqs, loaded), msg)
            IN  IF cachedFaq # 0
                THEN /\ \E updated \in BOOLEAN : SmsFaqLookup(msg, updated)
                     /\ \E businessName \in BusinessNames :
                           channelTurn' =
                              channelReply("sms", msg, "faq", loadOf(loaded), businessName,
                                           customizedResponses[faqMatch'.id, businessName])
                     /\ processNotCalled
                ELSE /\ userInput' = msg
                     /\ faqMatch' = [matcher |-> "sms", id |-> cachedFaq]
                     /\ faqs' = faqs
                     /\ \/ /\ Process(msg, FALSE)
                           /\ httpResponse'.status = 200
                           /\ channelTurn' = channelReply("sms", msg, "ai", loadOf(loaded), "",
                                                          truncate(finalResponse', FALSE))
                        \/ /\ channelTurn' =
                                 [channelReply("sms", msg, "error", loadOf(loaded), "",
                                               smsErrorResponse)
                                    EXCEPT !.error = "SMS AI processing failed: 500"]
                           /\ processNotCalled

\* validateEnvironment: the errors it throws, before the webhook form is read
EnvironmentErrors == {"Missing required environment variables: ELEVENLABS_API_KEY",
                      "Missing required environment variables: R2_PUBLIC_DOMAIN"}

\* the errors of the collaborators of a greeting turn, in the order of their
\* calls: identifyOrganization, getOrganizationConfig, generateVoice, uploadAudio
GreetingErrors == {"Database identify failed: 500", "Config fetch failed: 500",
                   "ElevenLabs error: 500", "R2 upload failed: 500"}

\* `this.directIdentifyOrganization(businessPhone, env)` in
\* handleEnhancedVoiceCall, a function of a module that handleRequest calls
\* without a receiver: its `this` is undefined, the member access throws
thisDirectIdentifyOrganization ==
    "Cannot read properties of undefined (reading 'directIdentifyOrganization')"

\* request.formData() of a request whose body has been read
bodyUsed == "Body has already been used"

\* getVoiceErrorResponse(error, "our service"), evaluated once per error
voiceCaught ==
    [error \in EnvironmentErrors \cup GreetingErrors \cup {thisDirectIdentifyOrganization} |->
        getVoiceErrorResponse(error, "our service")]

\* the catch block of the voice handler: for the call_sid of its log entry it
\* awaits request.formData() again, which rejects once the try block has read
\* the form, and that rejection leaves the handler; otherwise it answers with
\* the apology of the error's category in a <Say>
voiceCatch(speech, config, error, formRead) ==
    IF formRead
    THEN [noChannelTurn EXCEPT !.channel = "voice", !.utterance = speech,
                               !.path = "escaped", !.config = config, !.formRead = TRUE,
                               !.error = error, !.escaped = bodyUsed]
    ELSE [noChannelTurn EXCEPT !.channel = "voice", !.utterance = speech,
                               !.path = "error", !.reply = voiceCaught[error],
                               !.verb = "Say", !.error = error]

\* the greeting of the initial call
greeting(businessName) ==
    "Hi, this is Sarah from " \o businessName \o ". Before we proceed, I would like to let you know you are on a recorded line and my responses can take 4 to 5 seconds as I will be updating your records during our conversation, so for me to better assist you please be patient with me. Would that be okay with you?"

\* the voice handler on a call without a speech result: tenant identification
\* and configuration, both awaited unguarded, then the greeting clip of the
\* audio cache or a generated and uploaded one, played before the <Gather>
VoiceGreeting ==
    /\ processNotCalled
    /\ faqNotMatched
    /\ audioNotMatched
    /\ \/ \E error \in EnvironmentErrors :
             channelTurn' = voiceCatch("", "none", error, FALSE)
       \/ \E error \in GreetingErrors :
             channelTurn' =
                voiceCatch("",
                           CASE error = "Database identify failed: 500" -> "none"
                             [] error = "Config fetch failed: 500" -> "failed"
                             [] OTHER -> "loaded",
                           error, TRUE)
       \/ \E name \in BusinessNames :
             LET businessName == IF name # "" THEN name ELSE "ABZ Appliance Repair"
             IN  channelTurn' =
                    [channelReply("voice", "", "greeting", "none", businessName,
                                  greeting(businessName))
                       EXCEPT !.config = "loaded"]

\* the voice handler on a speech result: after the form and the construction of
\* the clients it evaluates this.directIdentifyOrganization, which throws; the
\* confirmation check, the catalog load, the FAQ match, the AI service and the
\* audio matching that follow in the try block are never reached
VoiceTurn(speech) ==
    /\ processNotCalled
    /\ faqNotMatched
    /\ audioNotMatched
    /\ \/ \E error \in EnvironmentErrors :
             channelTurn' = voiceCatch(speech, "none", error, FALSE)
       \/ channelTurn' = voiceCatch(speech, "none", thisDirectIdentifyOrganization, TRUE)

(***************************************************************************)
(* The circuit breaker.  The three workers carry the same class           *)
(* CircuitBreaker; they differ in the prefix of the rejection message.    *)
(* `execute` is async: it runs to its `await fn()` in one step, and the   *)
(* wrapped call settles in a later step, so calls on one breaker overlap  *)
(* (Promise.all in batchLoad and batchCall, the un-awaited state update). *)
(***************************************************************************)
threshold == 3

\* timeout = 30000 ms, in the ten-second units of `clock`
timeout == 3

MaxClock == 8
MaxPending == 2

Breakers == {"AI service openai", "Service database", "SMS service sms-database"}

CircuitBreaker(name) ==
    [name |-> name, failureCount |-> 0, state |-> "CLOSED", nextAttempt |-> clock]

notExecuted == [step |-> "none", error |-> ""]

healthy == [failures |-> 0, failedAt |-> 0]

BreakerIdle ==
    /\ clock = 0
    /\ circuitBreaker = [name |-> "", failureCount |-> 0, state |-> "CLOSED", nextAttempt |-> 0]
    /\ pending = 0
    /\ executed = notExecuted
    /\ dependency = healthy

onSuccessKeepsState(this) == [this EXCEPT !.failureCount = 0]

onSuccess(this) == [this EXCEPT !.failureCount = 0, !.state = "CLOSED"]

onFailureNeverOpens(this) == [this EXCEPT !.failureCount = this.failureCount + 1]

onFailure(this) ==
    IF this.failureCount + 1 >= threshold
    THEN [this EXCEPT !.failureCount = this.failureCount + 1,
                      !.state = "OPEN",
                      !.nextAttempt = clock + timeout]
    ELSE [this EXCEPT !.failureCount = this.failureCount + 1]

rejects(this) == this.state = "OPEN" /\ clock < this.nextAttempt

\* execute(fn) up to its `await fn()`
Execute ==
    /\ clock' = clock
    /\ dependency' = dependency
    /\ IF rejects(circuitBreaker)
       THEN /\ executed' = [step |-> "rejected",
                            error |-> circuitBreaker.name \o " temporarily unavailable"]
            /\ UNCHANGED <<circuitBreaker, pending>>
       ELSE /\ pending < MaxPending
            /\ circuitBreaker' = IF circuitBreaker.state = "OPEN"
                                 THEN [circuitBreaker EXCEPT !.state = "HALF_OPEN"]
                                 ELSE circuitBreaker
            /\ pending' = pending + 1
            /\ executed' = [step |-> "invoked", error |-> ""]

\* the wrapped call of a suspended execute resolves
Resolve ==
    /\ pending > 0
    /\ pending' = pending - 1
    /\ circuitBreaker' = onSuccess(circuitBreaker)
    /\ executed' = [step |-> "succeeded", error |-> ""]
    /\ dependency' = [dependency EXCEPT !.failures = 0]
    /\ clock' = clock

\* the wrapped call of a suspended execute rejects; execute rethrows its error
Reject ==
    /\ pending > 0
    /\ pending' = pending - 1
    /\ circuitBreaker' = onFailure(circuitBreaker)
    /\ executed' = [step |-> "failed", error |-> "fetch failed"]
    /\ dependency' = [failures |-> dependency.failures + 1, failedAt |-> clock]
    /\ clock' = clock

Tick ==
    /\ clock < MaxClock
    /\ clock' = clock + 1
    /\ UNCHANGED <<circuitBreaker, pending, executed, dependency>>

\* a handler starts a turn: it constructs its clients, and each client its breaker
Construct ==
    /\ pending = 0
    /\ circuitBreaker' = CircuitBreaker(circuitBreaker.name)
    /\ executed' = notExecuted
    /\ UNCHANGED <<pending, clock, dependency>>

ChannelIdle == channelTurn = noChannelTurn

FaqIdle == faqs = <<>> /\ userInput = "" /\ faqMatch = noFaqMatch
AudioIdle == audioClips = {} /\ aiResponse = "" /\ audioCache = <<>> /\ audioMatch = "null"

Init == DialogueInit /\ FaqIdle /\ AudioIdle /\ StoreIdle /\ ChannelIdle /\ BreakerIdle

Next ==
    \/ \E msg \in Messages, voice \in BOOLEAN :
          Process(msg, voice) /\ UNCHANGED <<faqVars, audioVars, storeVars, channelVars, breakerVars>>
    \/ \E error \in EarlyErrors :
          ProcessThrows(error) /\ UNCHANGED <<faqVars, audioVars, storeVars, channelVars, breakerVars>>

Spec == Init /\ [][Next]_vars


\* FAQ lookups over a tenant's catalog
RECURSIVE rowsOf(_, _)
rowsOf(catalog, n) ==
    IF n > Len(catalog) THEN <<>> ELSE <<FaqRows[catalog[n]]>> \o rowsOf(catalog, n + 1)

InitFAQ ==
    /\ DialogueInit /\ AudioIdle /\ StoreIdle /\ ChannelIdle /\ BreakerIdle
    /\ \E catalog \in FaqCatalogs : faqs = rowsOf(catalog, 1)
    /\ userInput = ""
    /\ faqMatch = noFaqMatch

NextFAQ ==
    /\ UNCHANGED <<dialogueVars, audioVars, storeVars, channelVars, breakerVars>>
    /\ \/ \E query \in Queries : VoiceFaqLookup(query)
       \/ \E query \in Queries : FaqEndpoint(query)
       \/ \E faqId \in 1..Len(FaqRows) : FaqUsageEndpoint(faqId)
       \/ \E query \in Queries, updated \in BOOLEAN : SmsFaqLookup(query, updated)

SpecFAQ == InitFAQ /\ [][NextFAQ]_vars

\* replies of voice calls matched against the audio cache: the store holds clips
\* for some of the templates of matchingRules
StoredTemplates == {commonTemplates[n] : n \in 1..Len(commonTemplates)}
                   \cup {"greeting", "greeting_hurry_sms"}

InitAudio ==
    /\ DialogueInit /\ FaqIdle /\ StoreIdle /\ ChannelIdle /\ BreakerIdle
    /\ audioClips \in SUBSET StoredTemplates
    /\ aiResponse = ""
    /\ audioCache = <<>>
    /\ audioMatch = "null"

NextAudio ==
    /\ UNCHANGED <<dialogueVars, faqVars, storeVars, channelVars, breakerVars>>
    /\ \E text \in AudioReplies : matchResponseToCache(text)

SpecAudio == InitAudio /\ [][NextAudio]_vars

\* /process requests of two workers over the conversation store
InitStore == DialogueInit /\ FaqIdle /\ AudioIdle /\ StoreIdle /\ ChannelIdle /\ BreakerIdle

NextStore ==
    /\ UNCHANGED <<dialogueVars, faqVars, audioVars, channelVars, breakerVars>>
    /\ \/ \E w \in Workers, body \in StoreRequests : Receive(w, body)
       \/ \E w \in Workers, ok \in BOOLEAN : GetStateLookup(w, ok)
       \/ \E w \in Workers, ok \in BOOLEAN : GetStateInsert(w, ok)
       \/ \E w \in Workers, content \in AIReplies : Respond(w, content)
       \/ \E w \in Workers : WriteApplied(w)
       \/ \E w \in Workers : WriteFailed(w)
       \/ \E w \in Workers : WriteLost(w)

SpecStore == InitStore /\ [][NextStore]_vars

\* SMS and voice turns of one contact of one tenant
ChannelCatalogs == {<<>>, <<1, 2>>, <<4>>}
InitChannel ==
    /\ DialogueInit /\ StoreIdle /\ ChannelIdle /\ BreakerIdle
    /\ \E catalog \in ChannelCatalogs : faqs = rowsOf(catalog, 1)
    /\ userInput = ""
    /\ faqMatch = noFaqMatch
    /\ AudioIdle

NextChannel ==
    /\ UNCHANGED <<storeVars, breakerVars>>
    /\ \/ \E msg \in Utterances : SmsTurn(msg)
       \/ VoiceGreeting
       \/ \E speech \in Utterances : VoiceTurn(speech)

SpecChannel == InitChannel /\ [][NextChannel]_vars

\* the Match Scorer applied to catalogs whose FAQs have not been used, or have
\* been used MaxUsage times, and to the clips of a few templates
usedRows(catalog, usage) ==
    [n \in 1..Len(catalog) |-> [FaqRows[catalog[n]] EXCEPT !.usage_count = usage]]

ScorerClips == SUBSET {"understand", "what_appliance", "common_issue"}

InitScorer ==
    /\ DialogueInit /\ StoreIdle /\ ChannelIdle /\ BreakerIdle
    /\ \E catalog \in FaqCatalogs, usage \in {0, MaxUsage} : faqs = usedRows(catalog, usage)
    /\ userInput = ""
    /\ faqMatch = noFaqMatch
    /\ audioClips \in ScorerClips
    /\ aiResponse = ""
    /\ audioCache = <<>>
    /\ audioMatch = "null"

NextScorer ==
    /\ UNCHANGED <<dialogueVars, storeVars, channelVars, breakerVars>>
    /\ \/ \E query \in Queries : VoiceFaqLookup(query) /\ UNCHANGED audioVars
       \/ \E query \in Queries : FaqEndpoint(query) /\ UNCHANGED audioVars
       \/ \E query \in Queries : SmsFindBestMatch(query) /\ UNCHANGED audioVars
       \/ \E text \in AudioReplies : matchResponseToCache(text) /\ UNCHANGED faqVars

SpecScorer == InitScorer /\ [][NextScorer]_vars

(***************************************************************************)
(* The /process turns of a customer in a hurry.                            *)
(***************************************************************************)
NextUrgent ==
    /\ \E msg \in UrgentMessages, voice \in BOOLEAN : Process(msg, voice)
    /\ UNCHANGED <<faqVars, audioVars, storeVars, channelVars, breakerVars>>

SpecUrgent == Init /\ [][NextUrgent]_vars

(***************************************************************************)
(* One breaker under callers that may overlap.                             *)
(***************************************************************************)
InitBreaker ==
    /\ DialogueInit /\ FaqIdle /\ AudioIdle /\ StoreIdle /\ ChannelIdle
    /\ clock = 0
    /\ \E name \in Breakers : circuitBreaker = CircuitBreaker(name)
    /\ pending = 0
    /\ executed = notExecuted
    /\ dependency = healthy

NextBreaker ==
    /\ \/ Execute
       \/ Resolve
       \/ Reject
       \/ Tick
    /\ UNCHANGED <<dialogueVars, faqVars, audioVars, storeVars, channelVars>>

SpecBreaker == InitBreaker /\ [][NextBreaker]_vars

(***************************************************************************)
(* The same breaker over a dependency that fails for a while and then has  *)
(* recovered: from recoveredAt on, the wrapped call no longer rejects.     *)
(* Time passes, an awaited call settles, and callers keep calling.         *)
(***************************************************************************)
recoveredAt == MaxClock - timeout

NextRecovery ==
    /\ \/ Execute
       \/ Resolve
       \/ clock < recoveredAt /\ Reject
       \/ Tick
    /\ UNCHANGED <<dialogueVars, faqVars, audioVars, storeVars, channelVars>>

SpecRecovery ==
    /\ InitBreaker
    /\ [][NextRecovery]_vars
    /\ WF_breakerVars(Tick)
    /\ WF_breakerVars(Resolve)
    /\ WF_breakerVars(Execute)

(***************************************************************************)
(* The breaker as the handlers use it: every turn constructs its clients,  *)
(* and with them a new breaker, and makes its calls through that one.      *)
(***************************************************************************)
MaxFailures == 4

NextTurns ==
    /\ \/ Construct
       \/ Execute
       \/ Resolve
       \/ dependency.failures < MaxFailures /\ Reject
       \/ Tick
    /\ UNCHANGED <<dialogueVars, faqVars, audioVars, storeVars, channelVars>>

SpecTurns == InitBreaker /\ [][NextTurns]_vars



(***************************************************************************)
(* Properties of the turn (specification Spec).                            *)
(***************************************************************************)
\* a turn has been processed: extractedInfo is what extractInformation returned
\* for message against conversation_data
turnTaken == message # ""

slotFields == {"applianceType", "issueDescription", "applianceMake", "customerName",
               "streetAddress", "city", "zipCode", "callbackNumber", "preferredTime",
               "lastConfirmation", "issueLocation"}

\* C1: the completionPercentage that extractInformation returns is
\* round(100 * k / 9), an integer of 0..100, where k is the number of the nine
\* required fields that are non-empty in the returned slot set; city and zipCode
\* count as two fields.
C1_CompletionPercentage ==
    turnTaken =>
        LET k == Cardinality({f \in slotFields \ {"lastConfirmation", "issueLocation"} :
                                 f \in DOMAIN extractedInfo /\ extractedInfo[f] # ""})
        IN  /\ extractedInfo["completionPercentage"] \in 0..100
            /\ extractedInfo["completionPercentage"] = (200 * k + 9) \div 18

\* the zip code is set and the city is empty: one field of nine, 11 percent
C1_Witness ==
    /\ turnTaken
    /\ Has(extractedInfo, "zipCode") /\ ~Has(extractedInfo, "city")
    /\ extractedInfo["completionPercentage"] = 11

\* C2: every slot that is non-empty in the prior slot set is non-empty in the
\* slot set extraction returns, and completionPercentage does not decrease from
\* one turn to the next.
C2_NeverCleared ==
    turnTaken =>
        /\ \A f \in slotFields : Has(conversation_data, f) => Has(extractedInfo, f)
        /\ completionIn(extractedInfo) >= completionIn(conversation_data)

\* the category a message triggers first, and its canonical value
firstTriggered(hits) == Leftmost({n \in 1..Len(hits) : hits[n]})

canonicalValue(field, mapping, n) ==
    IF field = "applianceMake" THEN capitalize(mapping[n].value) ELSE mapping[n].value

overwritten(field, mapping, hits) ==
    (/\ Has(conversation_data, field)
     /\ \E n \in 1..Len(hits) : hits[n]
     /\ canonicalValue(field, mapping, firstTriggered(hits)) # conversation_data[field])
    => extractedInfo[field] = canonicalValue(field, mapping, firstTriggered(hits))

\* C3: for each category-matched slot, when the prior slot set holds a value and
\* the utterance triggers a different category, the returned slot holds the
\* triggered category's canonical value, whichever position the category has in
\* its mapping.
C3_CategoryOverwritten ==
    turnTaken =>
        /\ overwritten("applianceType", appliances, foundIn[message].appliances)
        /\ overwritten("applianceMake", makes, foundIn[message].makes)
        /\ overwritten("issueDescription", issues, foundIn[message].issues)
        /\ overwritten("lastConfirmation", confirmationPatterns, foundIn[message].confirmations)
        /\ overwritten("issueLocation", locationPatterns, foundIn[message].locations)

\* C4: extraction is idempotent: extracting the same utterance again from the
\* slot set extraction returned gives that slot set back, completionPercentage
\* included.
C4_Idempotent ==
    turnTaken => extractInformation(message, extractedInfo) = extractedInfo

\* the turn changed the slot set, and filled more than one slot
C4_Witness ==
    /\ turnTaken
    /\ extractedInfo # conversation_data
    /\ Has(extractedInfo, "customerName") /\ Has(extractedInfo, "city")
    /\ Has(extractedInfo, "applianceType")

urgentResponses == {
    "I understand this is urgent. Let me get you scheduled quickly. What's your name and address?",
    "I understand this is urgent. To get you scheduled quickly, please provide: your name, address, and best callback number." }

\* C5: a slot set with preferredTime 'urgent' and completion below 50 gets the
\* urgent-path response of its channel; the slot set extracted from 'Emergency!
\* My dishwasher is flooding' against empty slots is such a slot set.
C5_UrgentPath ==
    /\ (/\ turnTaken
        /\ "preferredTime" \in DOMAIN extractedInfo
        /\ extractedInfo["preferredTime"] = "urgent"
        /\ extractedInfo["completionPercentage"] < 50)
       => /\ flowResponse \in urgentResponses
          /\ flowResponse = handleUrgentCustomer(extractedInfo, isVoice)
    /\ (conversation_data = EmptyObject /\ message = "Emergency! My dishwasher is flooding")
       => /\ extractedInfo["preferredTime"] = "urgent"
          /\ extractedInfo["completionPercentage"] < 50
          /\ flowResponse = handleUrgentCustomer(extractedInfo, isVoice)

C5_Witness ==
    /\ conversation_data = EmptyObject
    /\ message = "Emergency! My dishwasher is flooding"
    /\ extractedInfo["completionPercentage"] = 44
    /\ flowResponse \in urgentResponses

allNinePresent ==
    \A f \in slotFields \ {"lastConfirmation", "issueLocation"} : Has(extractedInfo, f)

pricingDisclosed ==
    /\ includes(flowResponse, "$89")
    /\ includes(flowResponse, "$150")
    /\ includes(flowResponse, "$300")

\* the phrase of the fixed table for the issue code of the slot set
issuePhrase == issueFormats[CHOOSE k \in 1..Len(issueFormats) :
                                issueFormats[k][1] = extractedInfo["issueDescription"]][2]

\* what the summary of either channel contains
summaryCore ==
    /\ includes(flowResponse, "Perfect!")
    /\ includes(flowResponse, extractedInfo["customerName"])
    /\ includes(flowResponse, extractedInfo["streetAddress"])
    /\ includes(flowResponse,
                extractedInfo["applianceMake"] \o " " \o extractedInfo["applianceType"])
    /\ includes(flowResponse, issuePhrase)
    /\ pricingDisclosed

cityZipAndTimeGiven ==
    /\ includes(flowResponse, extractedInfo["city"])
    /\ includes(flowResponse, extractedInfo["zipCode"])
    /\ includes(flowResponse, extractedInfo["preferredTime"])

entryOrder == <<"applianceType", "issueDescription", "applianceMake", "customerName",
                "streetAddress", "location", "callbackNumber", "preferredTime">>

entryMissing(entry) ==
    IF entry = "location"
    THEN ~Has(extractedInfo, "city") \/ ~Has(extractedInfo, "zipCode")
    ELSE ~Has(extractedInfo, entry)

missingEntries == {n \in 1..Len(entryOrder) : entryMissing(entryOrder[n])}

firstMissing == entryOrder[Leftmost(missingEntries)]

onUrgentPath ==
    /\ "preferredTime" \in DOMAIN extractedInfo
    /\ extractedInfo["preferredTime"] = "urgent"
    /\ extractedInfo["completionPercentage"] < 50

\* how the compound sentence names an entry
askFor(entry) ==
    CASE entry = "customerName" -> "your name"
      [] entry = "location" -> "city and zip code"
      [] entry = "callbackNumber" -> "callback number"
      [] entry = "preferredTime" -> "preferred time"
      [] OTHER -> entry

\* the text after 'I just need ', "" when the reply has no such part
afterJustNeed ==
    LET at == {i \in 1..Len(flowResponse) : matchAt(flowResponse, i, "I just need ")}
    IN  IF at = {} THEN ""
        ELSE SubSeq(flowResponse, Leftmost(at) + Len("I just need "), Len(flowResponse))

\* C7: off the urgent path, with completion of at least 60 and one or two
\* entries missing, the reply is one 'I just need X and Y' sentence that names
\* exactly the missing entries (only the preferred time when that is all that is
\* missing); with more than two entries missing it is the next question for the
\* first missing entry.
C7_DetailedCustomer ==
    (turnTaken /\ ~onUrgentPath /\ extractedInfo["completionPercentage"] >= 60
       /\ missingEntries # {}) =>
        LET first == Leftmost(missingEntries)
            last == Rightmost(missingEntries)
        IN  CASE Cardinality(missingEntries) = 1 ->
                    afterJustNeed = askFor(entryOrder[first]) \o "."
              [] Cardinality(missingEntries) = 2 ->
                    afterJustNeed = askFor(entryOrder[first]) \o " and "
                                    \o askFor(entryOrder[last]) \o "."
              [] OTHER ->
                    /\ afterJustNeed = ""
                    /\ flowResponse = generateNextQuestion(firstMissing, extractedInfo, isVoice)

\* eight of nine fields present, the preferred time missing
C7_Witness ==
    /\ turnTaken
    /\ missingEntries = {Len(entryOrder)}
    /\ extractedInfo["completionPercentage"] = 89
    /\ afterJustNeed = "preferred time."

\* C8: when the reply comes from next-question selection (not the urgent path,
\* not the summary, not the compound sentence), it is the question for the first
\* missing entry of the fixed order, the location being missing when city or zip
\* code is.
C8_FirstMissingAsked ==
    (/\ turnTaken /\ ~onUrgentPath /\ missingEntries # {}
     /\ (extractedInfo["completionPercentage"] >= 60 => Cardinality(missingEntries) > 2))
    => flowResponse = generateNextQuestion(firstMissing, extractedInfo, isVoice)

\* the zip code is known, the city is not, everything before the location is:
\* the location is asked for
C8_Witness ==
    /\ turnTaken
    /\ Has(extractedInfo, "zipCode") /\ ~Has(extractedInfo, "city")
    /\ firstMissing = "location"
    /\ flowResponse = getLocationQuestion(isVoice)

(***************************************************************************)
(* Properties of the FAQ matchers (specification SpecFAQ).                 *)
(***************************************************************************)
\* a keyword of the FAQ or a question word of more than three characters occurs
\* in the query
textHit(faqId, query) ==
    textPoints[faqId, query].keywords > 0 \/ textPoints[faqId, query].question > 0

\* C9: no matcher (voice and database worker with minimum 2, SMS with minimum
\* 3) returns a FAQ of which no keyword and no significant question word
\* occurs in the query, whatever its usage_count.
C9_NoHitNeverReturned ==
    faqMatch.id # 0 => textHit(faqMatch.id, userInput)

(***************************************************************************)
(* Properties of the audio matcher (specification SpecAudio).              *)
(***************************************************************************)
\* C10: a reply that contains "what's your full name" and neither "$89" nor
\* "diagnostic fee" is matched to no audio template, whatever else it contains.
C10_NameQuestionNeverMatched ==
    (/\ includes(toLowerCase(aiResponse), "what's your full name")
     /\ ~includes(aiResponse, "$89")
     /\ ~includes(aiResponse, "diagnostic fee"))
    => audioMatch = "null"

\* C11: a voice reply of the Flow Engine that discloses no price (a question,
\* the compound sentence, the urgent response) is matched to no audio template,
\* whatever the audio cache holds.
C11_FlowReplyNeverMatched ==
    (/\ aiResponse \in VoiceFlowReplies
     /\ ~includes(aiResponse, "$89")
     /\ ~includes(aiResponse, "diagnostic fee"))
    => audioMatch = "null"
(***************************************************************************)
(* Conversation State Lifecycle.                                           *)
(***************************************************************************)
\* the active rows of the pair of worker w's request, before the step
activeOf(w) ==
    activeStates(conversation_states, turns[w].organizationId, turns[w].customerPhone)

\* getConversationState of worker w returns a stored record in this step
returnsRecord(w) ==
    /\ turns[w].pc \in {"lookup", "insert"}
    /\ turns'[w].pc = "extract"
    /\ "id" \in DOMAIN turns'[w].conversationState

\* C12: getConversationState returns the most recently updated active record of
\* the pair and creates nothing; when the lookup found none it creates exactly
\* one record (empty slots, step 'greeting', active, expiring 24 hours after
\* its creation) and returns that record.
C12_GetConversationState ==
    [][\A w \in Workers :
          /\ (turns[w].pc = "lookup" /\ returnsRecord(w)) =>
                /\ conversation_states' = conversation_states
                /\ \E n \in activeOf(w) :
                      /\ turns'[w].conversationState = conversation_states[n]
                      /\ \A m \in activeOf(w) :
                            conversation_states[m].updated_at
                               <= conversation_states[n].updated_at
          /\ (turns[w].pc = "lookup" /\ turns'[w].pc = "insert") =>
                /\ activeOf(w) = {}
                /\ conversation_states' = conversation_states
          /\ (turns[w].pc = "insert" /\ returnsRecord(w)) =>
                /\ Len(conversation_states') = Len(conversation_states) + 1
                /\ SubSeq(conversation_states', 1, Len(conversation_states))
                      = conversation_states
                /\ LET created == conversation_states'[Len(conversation_states')]
                   IN  /\ turns'[w].conversationState = created
                       /\ created.organization_id = turns[w].organizationId
                       /\ created.customer_phone = turns[w].customerPhone
                       /\ created.conversation_data = EmptyObject
                       /\ created.current_step = "greeting"
                       /\ created.is_active
                       /\ created.expires_at = created.created_at + 24
                       /\ created.created_at = now
    ]_vars

\* a turn was handed the later updated of two active records of its pair
C12_Witness ==
    \E w \in Workers :
        /\ turns[w].pc = "extract"
        /\ "id" \in DOMAIN turns[w].conversationState
        /\ \E m \in activeOf(w) :
              /\ conversation_states[m].updated_at
                    < turns[w].conversationState.updated_at
              /\ conversation_states[turns[w].conversationState.id]
                    = turns[w].conversationState

\* C13: the store holds at most one active record per (tenant, contact) pair,
\* in every interleaving of turns.
C13_OneActivePerPair ==
    \A m, n \in 1..Len(conversation_states) :
        (/\ conversation_states[m].is_active
         /\ conversation_states[n].is_active
         /\ conversation_states[m].organization_id = conversation_states[n].organization_id
         /\ conversation_states[m].customer_phone = conversation_states[n].customer_phone)
        => m = n

\* C14: a turn writes the whole slot set it derived from the state it read,
\* without compare-and-swap and without merge: whatever the record holds when
\* the write is applied, it then holds the slot set of that write, so that after
\* the writes of two overlapping turns the record holds the one applied last.
C14_LastWriteWins ==
    [][\A w \in Workers :
          (turns[w].write.state = "pending" /\ turns'[w].write.state = "applied") =>
              conversation_states'[turns[w].write.id].conversation_data
                 = extractInformation(turns[w].message,
                                      turns[w].conversationState.conversation_data)
    ]_vars

\* two turns read the same slot set of one record and both writes were applied:
\* the record holds the slot set of one of them, and the other one's is gone
C14_Witness ==
    \E w, v \in Workers :
        /\ w # v
        /\ turns[w].write.state = "applied"
        /\ turns[v].write.state = "applied"
        /\ turns[w].write.id = turns[v].write.id
        /\ turns[w].conversationState.conversation_data
              = turns[v].conversationState.conversation_data
        /\ turns[w].extractedInfo # turns[v].extractedInfo
        /\ conversation_states[turns[w].write.id].conversation_data = turns[w].extractedInfo

\* C15: a failed lookup or insert inside getConversationState does not throw:
\* the call returns a transient state with empty slots, step 'greeting',
\* active and without id, and the turn goes on through extraction and reply
\* selection with that state.
C15_TransientState ==
    [][\A w \in Workers :
          /\ (turns[w].pc \in {"lookup", "insert"} /\ turns'[w] # turns[w]) =>
                /\ turns'[w].pc \in {"insert", "extract"}
                /\ (turns'[w].pc = "extract" /\ stateId(turns'[w].conversationState) = 0) =>
                      /\ turns'[w].conversationState =
                            [conversation_data |-> EmptyObject, current_step |-> "greeting",
                             is_active |-> TRUE]
                      /\ conversation_states' = conversation_states
          /\ (turns[w].pc = "extract" /\ stateId(turns[w].conversationState) = 0
                /\ turns'[w] # turns[w]) =>
                /\ turns'[w].pc = "replied"
                /\ turns'[w].status = 200
                /\ turns'[w].extractedInfo = extractInformation(turns[w].message, EmptyObject)
                /\ turns'[w].response # ""
    ]_vars

\* a turn was answered from the transient state while the store holds an active
\* record of its pair
C15_Witness ==
    \E w \in Workers :
        /\ turns[w].pc = "replied"
        /\ turns[w].status = 200
        /\ "id" \notin DOMAIN turns[w].conversationState
        /\ Has(turns[w].extractedInfo, "applianceType")
        /\ activeOf(w) # {}

\* C16: updateConversationState issues no store request when the state has no
\* id, and a failed write is swallowed: it changes neither the reply nor the
\* status of the turn, nor the store.
C16_UpdateSwallowsFailure ==
    [][\A w \in Workers :
          /\ (turns[w].pc = "extract" /\ turns'[w].pc = "replied"
                /\ stateId(turns[w].conversationState) = 0) =>
                turns'[w].write.state = "none"
          /\ (turns[w].write.state = "pending" /\ turns'[w].write.state = "failed") =>
                /\ turns'[w].pc = turns[w].pc
                /\ turns'[w].response = turns[w].response
                /\ turns'[w].status = turns[w].status
                /\ conversation_states' = conversation_states
    ]_vars

\* one turn extracted new slots into a state without id and issued no write;
\* the write of another turn failed after its reply
C16_Witness ==
    \E w, v \in Workers :
        /\ turns[w].pc = "replied"
        /\ stateId(turns[w].conversationState) = 0
        /\ turns[w].extractedInfo # turns[w].conversationState.conversation_data
        /\ turns[w].write.state = "none"
        /\ turns[v].write.state = "failed"
        /\ turns[v].status = 200

\* C17: a turn that has returned its reply while its state write is still
\* under way keeps its reply text, its returned slots and its HTTP status
\* whether the write is then applied, fails or never completes.
C17_ReplyBeforeWrite ==
    [][\A w \in Workers :
          (turns[w].pc = "replied" /\ turns[w].write.state = "pending") =>
              /\ turns[w].status = 200
              /\ turns'[w].pc = "replied"
              /\ turns'[w].response = turns[w].response
              /\ turns'[w].extractedInfo = turns[w].extractedInfo
              /\ turns'[w].status = turns[w].status
    ]_vars

\* a reply is out while its write is pending, and another turn's write never
\* completed
C17_Witness ==
    \E w, v \in Workers :
        /\ turns[w].pc = "replied"
        /\ turns[w].write.state = "pending"
        /\ turns[w].response # ""
        /\ turns[v].pc = "replied"
        /\ turns[v].write.state = "lost"
        /\ turns[v].status = 200

(***************************************************************************)
(* The turn of a channel handler.                                          *)
(***************************************************************************)
\* C18: in every SMS or voice turn that carries an utterance and is answered
\* (by a quick response, a confirmation clip, a FAQ answer or the AI service),
\* the conversation state was loaded and the slots of the utterance were
\* extracted into it and written back.
C18_ExtractionInEveryTurn ==
    channelTurn.path \in {"quick", "confirmation", "faq", "ai"} =>
        /\ message = channelTurn.utterance
        /\ extractedInfo = extractInformation(channelTurn.utterance, conversation_data)

\* the answer of the FAQ the turn's matcher returned
matchedAnswer == responseOf(faqs, faqMatch.id)

\* C19, as the specification states it: a turn calls the AI service only if FAQ
\* matching returned none, and whenever a FAQ matched the reply text is that
\* FAQ's answer.
C19_FaqAnswerIsReply ==
    /\ message # "" => (faqMatch.matcher # "none" /\ faqMatch.id = 0)
    /\ faqMatch.id # 0 => (message = "" /\ channelTurn.reply = matchedAnswer)

\* C19: a turn calls the AI service only if FAQ matching returned none; when a
\* FAQ matched, the AI service is not called and the reply is that FAQ's
\* answer, in which the SMS handler has replaced the first 'our service' by the
\* tenant's business name when a name is configured and is not in the answer.
C19_FaqOrService ==
    /\ message # "" => (faqMatch.matcher # "none" /\ faqMatch.id = 0)
    /\ faqMatch.id # 0 =>
          /\ message = ""
          /\ channelTurn.path = "faq"
          /\ channelTurn.reply =
                IF /\ channelTurn.channel = "sms"
                   /\ channelTurn.businessName # ""
                   /\ ~includes(matchedAnswer, channelTurn.businessName)
                THEN replace(matchedAnswer, "our service", channelTurn.businessName)
                ELSE matchedAnswer

\* an SMS turn answered by a FAQ whose answer went out with the business name
C19_Witness ==
    /\ channelTurn.channel = "sms"
    /\ faqMatch.id # 0
    /\ message = ""
    /\ includes(matchedAnswer, "our service")
    /\ includes(channelTurn.reply, "Acme Appliance")
    /\ ~includes(channelTurn.reply, "our service")

(***************************************************************************)
(* The generative responder.                                               *)
(***************************************************************************)
\* C20: no /process turn calls the generative responder, because the Flow
\* Engine returns a scripted reply for every slot set and channel.
C20_GenerativeNeverCalled == ~openaiCalled

(***************************************************************************)
(* Properties of the Match Scorer (specification SpecScorer).              *)
(***************************************************************************)
\* the score, in tenths of a point, that the matcher of the last lookup gives
\* the n-th FAQ of the catalog, and the least score it returns
lookupScore(n) ==
    IF faqMatch.matcher = "sms" THEN smsFaqScore(faqs[n], userInput)
    ELSE faqScore(faqs[n], userInput)

lookupMinimum == IF faqMatch.matcher = "sms" THEN 30 ELSE 20

faqCandidates == {n \in 1..Len(faqs) : lookupScore(n) >= lookupMinimum}

\* the cached templates that score above 5 against the reply
audioCandidates == {n \in 1..Len(audioCache) : scoreOf(aiResponse, audioCache[n]) > 5}

\* the reply went through the scoring loop of findBestMatch
audioScored == aiResponse # "" /\ ~flowDetected[aiResponse]

\* C21: the Match Scorer returns the candidate of the highest score among those
\* that meet the threshold (FAQ: 2 points in the voice and database workers, 3
\* in the SMS worker; audio templates: above 5), of equal highest scores the
\* one earliest in the input, and none when no candidate meets the threshold.
C21_MatchScorer ==
    /\ faqMatch.matcher # "none" =>
          IF faqCandidates = {} THEN faqMatch.id = 0
          ELSE \E n \in faqCandidates :
                  /\ faqMatch.id = faqs[n].id
                  /\ \A m \in faqCandidates :
                        \/ lookupScore(m) < lookupScore(n)
                        \/ lookupScore(m) = lookupScore(n) /\ n <= m
    /\ audioScored =>
          IF audioCandidates = {} THEN audioMatch = "null"
          ELSE \E n \in audioCandidates :
                  /\ audioMatch = audioCache[n]
                  /\ \A m \in audioCandidates :
                        LET scoreM == scoreOf(aiResponse, audioCache[m])
                            scoreN == scoreOf(aiResponse, audioCache[n])
                        IN  scoreM < scoreN \/ (scoreM = scoreN /\ n <= m)

\* two FAQs share the highest score and the first of the catalog was returned,
\* and two cached templates share the highest score and the first was returned
C21_Witness ==
    /\ faqMatch.matcher = "sms"
    /\ \E n, m \in faqCandidates :
          /\ n < m
          /\ lookupScore(n) = lookupScore(m)
          /\ \A k \in faqCandidates : lookupScore(k) <= lookupScore(n)
          /\ faqMatch.id = faqs[n].id
    /\ audioScored
    /\ \E n, m \in audioCandidates :
          /\ n < m
          /\ scoreOf(aiResponse, audioCache[n]) = scoreOf(aiResponse, audioCache[m])
          /\ audioMatch = audioCache[n]

(***************************************************************************)
(* Properties of the replies of generateResponse (specification Spec).     *)
(***************************************************************************)
\* the names of the slots as the code spells them
rawFieldNames == {"applianceType", "issueDescription", "applianceMake", "customerName",
                  "streetAddress", "zipCode", "callbackNumber", "preferredTime"}

\* C22: no reply of generateResponse contains a missing slot rendered as the
\* literal "undefined", or the raw name of a slot; the replies interpolate
\* only slots that are present.
C22_OnlyPresentSlots ==
    turnTaken =>
        /\ ~includes(flowResponse, "undefined")
        /\ \A field \in rawFieldNames : ~includes(flowResponse, field)

\* the slot set holds exactly one of city and zipCode
exactlyOneOfCityZip(info) == Has(info, "city") # Has(info, "zipCode")

\* the same slot set holding neither of the two
withoutCityZip(info) == [k \in DOMAIN info \ {"city", "zipCode"} |-> info[k]]

firstCategoryWins(field, mapping, hits) ==
    ~Has(conversation_data, field) =>
        IF \E n \in 1..Len(hits) : hits[n]
        THEN /\ field \in DOMAIN extractedInfo
             /\ extractedInfo[field] = canonicalValue(field, mapping, firstTriggered(hits))
        ELSE ~Has(extractedInfo, field)

samsungWasherTurn ==
    /\ message = "My Samsung washer is leaking"
    /\ \A field \in slotFields : field \notin DOMAIN conversation_data

\* C25: extracting "My Samsung washer is leaking" against an empty prior slot
\* set yields exactly applianceType "washer", applianceMake "Samsung" and
\* issueDescription "leaking", sets no other slot, and gives
\* completionPercentage 33.
C25_SamsungWasher ==
    samsungWasherTurn =>
        /\ DOMAIN extractedInfo \cap slotFields =
              {"applianceType", "applianceMake", "issueDescription"}
        /\ extractedInfo["applianceType"] = "washer"
        /\ extractedInfo["applianceMake"] = "Samsung"
        /\ extractedInfo["issueDescription"] = "leaking"
        /\ extractedInfo["completionPercentage"] = 33

\* the utterance was extracted in the first turn of a conversation
C25_Witness ==
    /\ samsungWasherTurn
    /\ conversation_data = EmptyObject
    /\ extractedInfo # EmptyObject

(***************************************************************************)
(* Properties of the SMS and voice turns (specification SpecChannel).      *)
(***************************************************************************)
\* C26: when the lookup of the FAQ catalog or of the tenant configuration
\* fails in an SMS or voice turn, the turn is not aborted: no error leaves the
\* handler and the turn throws nothing but, possibly, a failure of the AI
\* service itself; after a failed catalog load the FAQ matcher runs over the
\* empty catalog and returns none, the turn goes on to the AI service, and its
\* reply is the reply of the /process turn.
C26_LookupFailureDegrades ==
    (channelTurn.catalog = "failed" \/ channelTurn.config = "failed") =>
        /\ channelTurn.escaped = ""
        /\ channelTurn.error \in {"", "SMS AI processing failed: 500"}
        /\ channelTurn.catalog = "failed" =>
              /\ userInput = channelTurn.utterance
              /\ faqMatch = [matcher |-> channelTurn.channel, id |-> 0]
              /\ channelTurn.path \in {"ai", "error"}
              /\ channelTurn.path = "ai" =>
                    /\ message = channelTurn.utterance
                    /\ isVoice = (channelTurn.channel = "voice")
                    /\ channelTurn.reply = truncate(finalResponse, isVoice)
                    /\ channelTurn.reply \notin {"", smsErrorResponse}

\* C27: every SMS or voice turn that selects a FAQ answer increases the
\* usage_count of that FAQ by exactly one and changes nothing else in the
\* catalog.
C27_UsageCounted ==
    [][ (channelTurn'.path = "faq" /\ usageBelowMax(faqs, faqMatch'.id)) =>
          /\ Len(faqs') = Len(faqs)
          /\ \A n \in 1..Len(faqs) :
                faqs'[n] = IF faqs[n].id = faqMatch'.id
                           THEN [faqs[n] EXCEPT !.usage_count = faqs[n].usage_count + 1]
                           ELSE faqs[n] ]_vars

(***************************************************************************)
(* Tenant isolation of the conversation store (specification SpecStore).   *)
(***************************************************************************)
\* the turn of invocation w has read a record of the store
readsRecord(w) == turns[w].tenantId # "" /\ stateId(turns[w].conversationState) # 0

\* C28: two /process turns with different tenantId values never read or write
\* the same conversation record.
C28_TenantIsolation ==
    \A w, v \in Workers :
        (/\ readsRecord(w) /\ readsRecord(v)
         /\ turns[w].tenantId # turns[v].tenantId) =>
            stateId(turns[w].conversationState) # stateId(turns[v].conversationState)

(***************************************************************************)
(* Errors in the /process handler (specification Spec).                    *)
(***************************************************************************)
\* C29: when the handling of a /process request throws, the handler itself
\* returns HTTP 500 with a JSON body holding success = false and the apology
\* of the channel in `response`; the exception never leaves the handler.
C29_ErrorsAnswered ==
    httpResponse.error # "" =>
        /\ httpResponse.escaped = ""
        /\ httpResponse.status = 500
        /\ httpResponse.success = FALSE
        /\ httpResponse.response = getAIErrorResponse(httpResponse.error, isVoice)

(***************************************************************************)
\* C30: a breaker of threshold 3 is OPEN once the third failure in a row has
\* been counted; an execute call made while the breaker is OPEN and its
\* cooldown has not expired is rejected with a "temporarily unavailable"
\* error, without invoking the wrapped call and without changing the breaker;
\* and wherever the breaker is OPEN, failureCount >= threshold.
(***************************************************************************)
thirdFailureInARow ==
    /\ executed'.step = "failed"
    /\ circuitBreaker'.failureCount >= threshold

callWhileOpen ==
    /\ rejects(circuitBreaker)
    /\ executed'.step \in {"rejected", "invoked"}

temporarilyUnavailable(error) ==
    \E i \in 1..Len(error) :
        SubSeq(error, i, Len(error)) = " temporarily unavailable"

C30_BreakerOpens ==
    [][/\ thirdFailureInARow => circuitBreaker'.state = "OPEN"
       /\ callWhileOpen =>
              /\ executed'.step = "rejected"
              /\ temporarilyUnavailable(executed'.error)
              /\ pending' = pending
              /\ circuitBreaker' = circuitBreaker
       /\ circuitBreaker'.state = "OPEN" =>
              circuitBreaker'.failureCount >= threshold]_vars

C30_Witness ==
    /\ circuitBreaker.state = "OPEN"
    /\ circuitBreaker.failureCount = threshold
    /\ clock < circuitBreaker.nextAttempt
    /\ executed.step = "rejected"

(***************************************************************************)
\* C31: an execute call made on an OPEN breaker whose cooldown has elapsed
\* sets it HALF_OPEN and invokes the wrapped call; a success of a call on a
\* HALF_OPEN breaker leaves it CLOSED with failureCount 0, a failure leaves it
\* OPEN with nextAttempt = now + timeout; and once the dependency has
\* recovered, with time passing and calls arriving, an OPEN breaker is
\* eventually CLOSED.
(***************************************************************************)
cooldownElapsed == circuitBreaker.state = "OPEN" /\ clock >= circuitBreaker.nextAttempt

trialCall ==
    /\ cooldownElapsed
    /\ clock' = clock
    /\ executed'.step \in {"rejected", "invoked"}

trialSettles(step) ==
    /\ circuitBreaker.state = "HALF_OPEN"
    /\ pending' < pending
    /\ executed'.step = step

C31_HalfOpenTrial ==
    /\ [][/\ trialCall =>
                 /\ executed'.step = "invoked"
                 /\ pending' = pending + 1
                 /\ circuitBreaker' = [circuitBreaker EXCEPT !.state = "HALF_OPEN"]
          /\ trialSettles("succeeded") =>
                 /\ circuitBreaker'.state = "CLOSED"
                 /\ circuitBreaker'.failureCount = 0
          /\ trialSettles("failed") =>
                 /\ circuitBreaker'.state = "OPEN"
                 /\ circuitBreaker'.nextAttempt = clock + timeout
                 /\ circuitBreaker'.nextAttempt > clock']_vars
    /\ (circuitBreaker.state = "OPEN") ~> (circuitBreaker.state = "CLOSED")

C31_Witness ==
    /\ circuitBreaker.state = "CLOSED"
    /\ circuitBreaker.failureCount = 0
    /\ circuitBreaker.nextAttempt >= timeout
    /\ clock >= circuitBreaker.nextAttempt
    /\ executed.step = "succeeded"
    /\ pending = 0

(***************************************************************************)
\* C32: the breaker state of a dependency outlives the turn: when the calls
\* to the dependency have failed three or more times in a row, the last one
\* less than a cooldown ago, a call of the next turn is rejected by the
\* breaker and the dependency is not called.
(***************************************************************************)
failedWithinCooldown ==
    /\ dependency.failures >= threshold
    /\ clock < dependency.failedAt + timeout

C32_BreakerSurvivesTurns ==
    [][(/\ failedWithinCooldown
        /\ clock' = clock
        /\ executed'.step \in {"rejected", "invoked"}) =>
           /\ executed'.step = "rejected"
           /\ pending' = pending]_vars

(***************************************************************************)
\* C33: a customer who supplies what the reply asked for moves the
\* conversation on: when the reply is the request of the urgent path (name
\* and address, by SMS also the callback number) and after the customer's next
\* turn on the same channel all of these are stored, the reply of that turn is
\* no longer the same request.
(***************************************************************************)
urgentRequest(voice) ==
    IF voice THEN {"customerName", "streetAddress"}
    ELSE {"customerName", "streetAddress", "callbackNumber"}

C33_AnswerMovesOn ==
    [][(/\ turnTaken
        /\ flowResponse = handleUrgentCustomer(extractedInfo, isVoice)
        /\ isVoice' = isVoice
        /\ \A field \in urgentRequest(isVoice) : Has(extractedInfo', field)) =>
           flowResponse' # flowResponse]_vars

(***************************************************************************)
\* C34: the stored slot set only grows, however the turns of a contact
\* interleave: a required field that is set in a record of table
\* conversation_states stays set in that record, and the record's
\* completionPercentage never decreases.
(***************************************************************************)
storedCompletion(row) == completionIn(row.conversation_data)

C34_StoredSlotsMonotone ==
    [][\A id \in 1..Len(conversation_states) :
          /\ \A n \in 1..Len(requiredFields) :
                Has(conversation_states[id].conversation_data, requiredFields[n])
                   => Has(conversation_states'[id].conversation_data, requiredFields[n])
          /\ storedCompletion(conversation_states'[id])
                >= storedCompletion(conversation_states[id])
    ]_vars

(***************************************************************************)
\* C35: the terminal summary is absorbing: when the Flow Engine's reply of a
\* turn was the terminal summary, its reply of the next turn of the
\* conversation is the terminal summary again, whatever the customer said.
(***************************************************************************)
summaryReturned == turnTaken /\ flowResponse = generateSummaryResponse(extractedInfo, isVoice)

C35_SummaryAbsorbing ==
    [][(summaryReturned /\ httpResponse'.status = 200) =>
           flowResponse' = generateSummaryResponse(extractedInfo', isVoice')]_vars

(***************************************************************************)
\* C36: for a slot set below 60 percent that is neither complete nor on the
\* urgent path, the reply is the question for the first missing entry, below
\* 30 percent (vague branch) as from 30 to 59 (standard branch); and of such
\* slot sets exactly those with six or more of the nine fields are at 60
\* percent or more and take the detailed branch.
(***************************************************************************)
inQuestionScope == turnTaken /\ ~onUrgentPath /\ missingEntries # {}

C36_NextQuestionBelow60 ==
    inQuestionScope =>
        /\ extractedInfo["completionPercentage"] < 60 =>
              flowResponse = generateNextQuestion(firstMissing, extractedInfo, isVoice)
        /\ flowBranch(extractedInfo) = "vague" <=> extractedInfo["completionPercentage"] < 30
        /\ flowBranch(extractedInfo) = "detailed" <=> completedFields(extractedInfo) >= 6

\* the vague branch with the appliance known and the issue not: the issue
\* question of that appliance, which is the question for the first missing entry
C36_Witness ==
    /\ inQuestionScope
    /\ flowBranch(extractedInfo) = "vague"
    /\ Has(extractedInfo, "applianceType")
    /\ firstMissing = "issueDescription"
    /\ flowResponse = getIssueQuestion(extractedInfo, isVoice)

(***************************************************************************)
\* C37: from the empty slot set on, after every extraction the city is
\* non-empty exactly when the zip code is.
(***************************************************************************)
C37_CityIffZip ==
    turnTaken => (Has(extractedInfo, "city") <=> Has(extractedInfo, "zipCode"))

(***************************************************************************)
(* The voice handler (specification SpecChannel).                          *)
(***************************************************************************)
\* a voice turn that carried a speech result
voiceSpeechTurn == channelTurn.channel = "voice" /\ channelTurn.utterance # ""

\* C38: a voice turn that carries a speech result and in which neither the
\* environment nor a collaborator fails gets past the identification of the
\* organization to the confirmation clip, the FAQ match or the AI service, and
\* answers with a <Play>: no apology is said and no error leaves the handler.
C38_SpeechTurnPlays ==
    (voiceSpeechTurn /\ channelTurn.error \notin EnvironmentErrors \cup GreetingErrors) =>
        /\ channelTurn.escaped = ""
        /\ channelTurn.verb = "Play"
        /\ channelTurn.path \in {"confirmation", "faq", "ai"}

\* C39: when the try block of a voice turn throws after the webhook form has
\* been read, the handler returns the <Say> apology of the error's category,
\* and no error leaves the handler.
C39_VoiceErrorsAnswered ==
    (channelTurn.channel = "voice" /\ channelTurn.formRead /\ channelTurn.error # "") =>
        /\ channelTurn.escaped = ""
        /\ channelTurn.verb = "Say"
        /\ channelTurn.reply = voiceCaught[channelTurn.error]

====
